---- MODULE Spec2Model ----
(***************************************************************************)
(* A model of the SPDY connection engine of mkch/burrow (package spdy):    *)
(* the reader, writer and serve loops of conn.Serve, the live-stream       *)
(* registry with the half-close flags of each stream, and the two blocking *)
(* priority queues (stream dispatch and frame egress) built on             *)
(* container/heap and the counting semaphore.                              *)
(*                                                                         *)
(* The specifications share the variables:                                 *)
(*   Spec / FairSpec  one connection served by conn.Serve;                 *)
(*   SpecReader       the same connection while only readLoop is scheduled,*)
(*                    which leaves room for a longer input;                *)
(*   SpecQ            goroutines calling Push and Pop of one               *)
(*                    BlockingPriorityQueue, step by step through the      *)
(*                    semaphore's mutex and condition variables;           *)
(*   SpecHalfClose    callers of stream.PeerHalfClose and stream.HalfClose *)
(*                    on streams in any state the engine can leave them in.*)
(***************************************************************************)
EXTENDS Integers, Sequences, FiniteSets, TLC

(***************************************************************************)
(* Bounds of the model.                                                    *)
(***************************************************************************)
\* Frames the reader decodes from the connection before the input goes quiet.
MaxFrames == 2
\* Frames the reader decodes in SpecReader, where no other goroutine runs.
MaxAheadFrames == 3
\* Stream ids carried by incoming frames are 0..MaxStreamID.
MaxStreamID == 3
\* DATA frames one handler flushes from inside Write (Close adds the last one).
MaxData == 1
\* Goroutines that call one BlockingPriorityQueue concurrently (SpecQ).
MaxCallers == 3
\* The size the BlockingPriorityQueue of SpecQ is created with.
QueueCap == 2
\* Push and Pop calls issued in one run of SpecQ.
MaxCalls == 5
\* Calls of the half-close setters in one run of SpecHalfClose.
MaxSetterCalls == 2
\* Calls of conn.writeFrame in one run of SpecEgress.
MaxWrites == 3
\* Calls of conn.push in one run of SpecPush, each in a goroutine of its own.
MaxPushes == 2
\* Connections the process serves in SpecPush.
MaxConns == 2
\* Write calls made on the response writer of SpecWriter.
MaxWriteCalls == 3
\* Items pushed onto the priorityQueue of SpecBatch.
MaxBatch == 4
\* Fields written by the Encoder of SpecBits.
MaxFields == 3
\* Add calls made on the header block of SpecHeaders.
MaxAdds == 3
\* Set calls made on the setting entries of SpecSettings.
MaxSets == 3
\* Write and WriteHeader calls made on the statushook writer of SpecHook.
MaxHookCalls == 4
\* Goroutines of SpecLocks, and the calls they make in one run.
MaxLockers == 3
MaxLockCalls == 4

(***************************************************************************)
(* Program constants.                                                      *)
(***************************************************************************)
maxFramePriority == 255
recvFrameBufSize == 100
sendFrameBufSize == 100
MIN_PRIORITY == 0
MAX_PRIORITY_V3 == 7
MAX_PRIORITY_V2 == 3
STATUS_PROTOCOL_ERROR == 1
STATUS_INVALID_STREAM == 2
STATUS_INTERNAL_ERROR == 6
STATUS_STREAM_IN_USE == 8
STATUS_STREAM_ALREADY_CLOSED == 9
STATUS_GOAWAY_PROTOCOL_ERROR == 1
FLAG_NONE == 0
FLAG_FIN == 1
FLAG_UNIDIRECTIONAL == 2
FLAG_SETTINGS_PERSIST_VALUE == 1
FLAG_SETTINGS_PERSISTED == 2
MAX_DATA_LEN == 10240

VARIABLES
    Version,          \* conn.Version: 2 or 3
    nread,            \* frames decoded so far by readLoop
    rframe,           \* what framing.ReadFrame returned last: frame type, stream id,
                      \* whether it is a DATA frame with FLAG_FIN, and the payload
                      \* bytes left unread in the decoder
    rpc,              \* position of readLoop
    rerr,             \* the err readLoop left its loop with
    rcur,             \* the DATA frame readDataFrame is copying into a body pipe
    wpc,              \* position of writeLoop
    spc,              \* position of serveLoop
    exits,            \* announcements conn.Serve has received from c.exit
    panicked,         \* a goroutine panicked: the process is gone
    streams,          \* every stream object allocated so far, by identity
    hs,               \* per stream object: its serveStream goroutine and response writer
    liveStreams,      \* conn.liveStreams: stream id -> stream object (0: absent)
    lastGoodStreamID, \* conn.lastGoodStreamID
    streamQ,          \* conn.streamQ: the heap array of the dispatch queue
    framesToWrite,    \* conn.framesToWrite: the heap array of the egress queue
    frameWriteSeq,    \* conn.frameWriteSeq
    q,                \* SpecQ: BlockingPriorityQueue.q, the heap array
    value,            \* SpecQ: semaphore.value
    l,                \* SpecQ: semaphore.l, the goroutine holding the mutex (0: free)
    gpc,              \* SpecQ: position of each calling goroutine
    gitem,            \* SpecQ: the item each goroutine is pushing
    ncalls,           \* SpecQ: Push and Pop calls issued so far
    call,             \* SpecHalfClose: the setter call made last
    nsetter,          \* SpecHalfClose: setter calls made so far
    nextServerStreamID,      \* the package variable nextServerStreamID
    lockNextServerStreamID,  \* the goroutine holding lockNextServerStreamID (0: free)
    ppc,              \* SpecPush: position of each conn.push call
    plocal,           \* SpecPush: the locals of each conn.push call
    issued,           \* SpecPush: the ids newServerStreamID returned, in order
    pconn,            \* SpecPush: per connection, its registry and egress queue
    rw,               \* SpecWriter: the response writer, the frames it submitted
    pq,               \* SpecBatch: a priorityQueue, the items pushed and popped
    codec,            \* SpecBits: an Encoder, a Decoder and the bytes between them
    hb,               \* SpecHeaders: a headerBlockV2 and the Add calls made on it
    se,               \* SpecSettings: a settingEntriesV2 and the Set calls made on it
    hk,               \* SpecHook: a statushook responseWriter and what it wraps
    lk                \* SpecLocks: the goroutines at the locks of streams and registry

connVars == <<Version, nread, rframe, rpc, rerr, rcur, wpc, spc, exits, panicked,
              streams, hs, liveStreams, lastGoodStreamID, streamQ, framesToWrite,
              frameWriteSeq>>
semVars == <<q, value, l, gpc, gitem, ncalls>>
callVars == <<call, nsetter>>
pushVars == <<nextServerStreamID, lockNextServerStreamID, ppc, plocal, issued, pconn>>
\* The components that are run on their own, outside a connection.
unitVars == <<rw, pq, codec, hb, se, hk, lk>>
serverVars == <<connVars, semVars, callVars, pushVars>>
vars == <<connVars, semVars, callVars, pushVars, unitVars>>

(***************************************************************************)
(* Frames.  A frame is a record; the nil frame is the writer's sentinel.   *)
(***************************************************************************)
NilFrame == [type |-> "nil", sid |-> 0, code |-> 0, fin |-> FALSE, n |-> 0, obj |-> 0]

\* code is the status code of RST_STREAM and GOAWAY; n numbers the DATA frames of
\* one response in the order of the flushes; obj names the stream object whose
\* response writer built the frame (0 for the frames the engine builds).
Frame(type, sid, code, fin, n) ==
    [type |-> type, sid |-> sid, code |-> code, fin |-> fin, n |-> n, obj |-> 0]

ResponseFrame(type, k, sid, fin, n) ==
    [type |-> type, sid |-> sid, code |-> 0, fin |-> fin, n |-> n, obj |-> k]

\* framing.FrameWithStreamID: the frame types that have a StreamID method.
FrameWithStreamID(f) ==
    f.type \in {"SYN_STREAM", "SYN_REPLY", "RST_STREAM", "HEADERS", "WINDOW_UPDATE", "DATA"}

StatusCodeStreamInUseAlwaysProtocolError(version) == STATUS_PROTOCOL_ERROR

StatusCodeStreamInUse(version) ==
    IF version = 2 THEN STATUS_PROTOCOL_ERROR ELSE STATUS_STREAM_IN_USE

StatusCodeStreamAlreadyClosed(version) ==
    IF version = 2 THEN STATUS_INVALID_STREAM ELSE STATUS_STREAM_ALREADY_CLOSED

(***************************************************************************)
(* The priority queue: util.priorityQueue under container/heap.            *)
(* Heap arrays are sequences; the Go code's indices are 0-based.           *)
(***************************************************************************)
\* stream.TakePrecedenceOver
streamTakePrecedenceOver(s, otherStream) ==
    IF s.Priority = otherStream.Priority
    THEN s.ID < otherStream.ID
    ELSE s.Priority > otherStream.Priority

\* frameWithPriority.TakePrecedenceOver
frameTakePrecedenceOver(f, otherFrame) ==
    IF f.Priority = otherFrame.Priority
    THEN f.Seq < otherFrame.Seq
    ELSE f.Priority > otherFrame.Priority

\* Item.TakePrecedenceOver of the queue's tests
itemTakePrecedenceOver(i, other) == i.Priority < other.Priority

\* The dynamic dispatch of PriorityItem.TakePrecedenceOver.
TakePrecedenceOver(a, b) ==
    IF "Seq" \in DOMAIN a
    THEN frameTakePrecedenceOver(a, b)
    ELSE IF "Message" \in DOMAIN a
    THEN itemTakePrecedenceOver(a, b)
    ELSE streamTakePrecedenceOver(a, b)

LessWithoutNot(h, i, j) == TakePrecedenceOver(h[i + 1], h[j + 1])

\* priorityQueue.Less
Less(h, i, j) == ~TakePrecedenceOver(h[i + 1], h[j + 1])

\* priorityQueue.Swap
Swap(h, i, j) == [h EXCEPT ![i + 1] = h[j + 1], ![j + 1] = h[i + 1]]

\* heap.up of container/heap
RECURSIVE up(_, _)
up(h, j) ==
    LET i == IF j = 0 THEN 0 ELSE (j - 1) \div 2
    IN  IF i = j \/ ~Less(h, j, i) THEN h ELSE up(Swap(h, i, j), i)

\* heap.down of container/heap
RECURSIVE down(_, _, _)
down(h, i, n) ==
    LET j1 == 2 * i + 1
        j2 == j1 + 1
        j  == IF j2 < n /\ Less(h, j2, j1) THEN j2 ELSE j1
    IN  IF j1 >= n THEN h
        ELSE IF ~Less(h, j, i) THEN h
        ELSE down(Swap(h, i, j), j, n)

\* heap.Push on a priorityQueue: append, then sift up.
heapPush(h, x) == up(Append(h, x), Len(h))

\* heap.Pop on a priorityQueue: swap the root to the end, sift down, take the end.
heapPop(h) ==
    LET n  == Len(h) - 1
        h1 == down(Swap(h, 0, n), 0, n)
    IN  [item |-> h1[n + 1], q |-> SubSeq(h1, 1, n)]

(***************************************************************************)
(* Streams and the live registry.                                          *)
(***************************************************************************)
\* The nil PriorityItem and the frame sentinel readLoop pushes on exit.
NilItem == [obj |-> 0, ID |-> 0, Priority |-> 0]
FrameSentinel == [Priority |-> 0, Seq |-> 0, Frame |-> NilFrame]

\* conn.getStream: the stream object registered under streamID, 0 for nil.
getStream(streamID) == liveStreams[streamID]

\* conn.addStream, as the registry after it.
addStream(live, streamID, k) == [live EXCEPT ![streamID] = k]

deleteStreamKeepsEntry(live, streamID) == live

\* conn.deleteStream, as the registry after it.
deleteStream(live, streamID) == [live EXCEPT ![streamID] = 0]

\* stream.PeerHalfClose: the stream objects and the registry after the call.
PeerHalfClose(ss, live, k) ==
    IF ss[k].peerHalfClosed
    THEN [streams |-> ss, liveStreams |-> live]
    ELSE [streams |-> [ss EXCEPT ![k].peerHalfClosed = TRUE],
          liveStreams |-> IF ss[k].halfClosed
                          THEN deleteStream(live, ss[k].ID) ELSE live]

HalfCloseWithoutCheck(ss, live, k) ==
    [streams |-> [ss EXCEPT ![k].halfClosed = TRUE],
     liveStreams |-> IF ss[k].peerHalfClosed
                     THEN deleteStream(live, ss[k].ID) ELSE live]

\* stream.HalfClose: the stream objects and the registry after the call.
HalfClose(ss, live, k) ==
    IF ss[k].halfClosed
    THEN [streams |-> ss, liveStreams |-> live]
    ELSE [streams |-> [ss EXCEPT ![k].halfClosed = TRUE],
          liveStreams |-> IF ss[k].peerHalfClosed
                          THEN deleteStream(live, ss[k].ID) ELSE live]

closeStreamWriterOnly(ss, live, k) ==
    [streams |-> IF ss[k].Reader THEN [ss EXCEPT ![k].wclosed = TRUE] ELSE ss,
     liveStreams |-> deleteStream(live, ss[k].ID)]

\* conn.closeStream: both pipe ends closed, the id dropped from the registry.
closeStream(ss, live, k) ==
    [streams |-> IF ss[k].Reader
                 THEN [ss EXCEPT ![k].wclosed = TRUE, ![k].rclosed = TRUE]
                 ELSE ss,
     liveStreams |-> deleteStream(live, ss[k].ID)]

(***************************************************************************)
(* Frame egress.  In Spec a queue operation is one step: Push waits while  *)
(* the queue holds its capacity, Pop waits while it is empty (SpecQ takes  *)
(* the two apart).  conn.writeFrame is one step with the Push it ends in.  *)
(***************************************************************************)
\* conn.nextFrameWriteSeq.  The counter is a uint32 and wraps after 2^32 frames;
\* a connection of at most MaxFrames input frames stays far below that.
nextFrameWriteSeq(seq) == seq + 1

\* The egress filter at the head of conn.writeFrame.
Discarded(f) ==
    /\ FrameWithStreamID(f)
    /\ \/ getStream(f.sid) = 0
       \/ streams[getStream(f.sid)].halfClosed

\* conn.writeFrame
writeFrame(f, priority) ==
    IF Discarded(f)
    THEN UNCHANGED <<framesToWrite, frameWriteSeq>>
    ELSE /\ Len(framesToWrite) < sendFrameBufSize
         /\ frameWriteSeq' = nextFrameWriteSeq(frameWriteSeq)
         /\ framesToWrite' = heapPush(framesToWrite,
                                      [Priority |-> priority,
                                       Seq |-> frameWriteSeq',
                                       Frame |-> f])

\* framing.NewRstStream: whether the constructor accepts the arguments.
NewRstStreamOK(version, streamID, statusCode) ==
    /\ streamID # 0
    /\ statusCode >= 1
    /\ statusCode <= (IF version = 2 THEN 7 ELSE 11)

\* conn.writeRstStreamID (log.Panicf when the frame cannot be built).
writeRstStreamID(streamID, statusCode) ==
    IF NewRstStreamOK(Version, streamID, statusCode)
    THEN /\ writeFrame(Frame("RST_STREAM", streamID, statusCode, FALSE, 0),
                       maxFramePriority)
         /\ UNCHANGED panicked
    ELSE /\ panicked' = TRUE
         /\ UNCHANGED <<framesToWrite, frameWriteSeq>>

\* conn.writeRstStream for stream object k.
writeRstStream(k, statusCode) ==
    IF streams[k].halfClosed
    THEN UNCHANGED <<framesToWrite, frameWriteSeq, panicked>>
    ELSE writeRstStreamID(streams[k].ID, statusCode)

(***************************************************************************)
(* The input: what framing.ReadFrame can hand to readLoop.                 *)
(***************************************************************************)
Priorities(version) ==
    {MIN_PRIORITY, IF version = 2 THEN MAX_PRIORITY_V2 ELSE MAX_PRIORITY_V3}

In(type, sid, pri, flags, len) ==
    [type |-> type, sid |-> sid, pri |-> pri, flags |-> flags, len |-> len]

InFrames(version) ==
    {In("SYN_STREAM", sid, pri, flags, 0) :
        sid \in 0..MaxStreamID, pri \in Priorities(version),
        flags \in {FLAG_NONE, FLAG_FIN, FLAG_UNIDIRECTIONAL}}
    \cup {In("RST_STREAM", sid, 0, FLAG_NONE, 0) : sid \in 0..MaxStreamID}
    \cup {In("DATA", sid, 0, flags, len) :
        sid \in 0..MaxStreamID, flags \in {FLAG_NONE, FLAG_FIN}, len \in {0, 1}}
    \cup {In(t, 0, 0, FLAG_NONE, 0) :
        t \in {"PING", "SETTINGS", "NOOP", "WINDOW_UPDATE", "GOAWAY", "SYN_REPLY",
               "EOF", "NetError", "DecodeError"}}

\* A new stream object as conn.readControlFrame builds it from a SYN_STREAM.
NewStream(f) ==
    [ID |-> f.sid, Priority |-> f.pri,
     peerHalfClosed |-> (f.flags = FLAG_FIN),
     halfClosed |-> (f.flags = FLAG_UNIDIRECTIONAL),
     Reader |-> (f.flags # FLAG_FIN),
     rclosed |-> FALSE, wclosed |-> FALSE]

\* A serveStream goroutine that has not been started, with its response writer.
NewHandler == [pc |-> "idle", ctrlFrameWritten |-> FALSE, nflush |-> 0]

\* No DATA frame is being copied into a body pipe.
NoCopy == [obj |-> 0, fin |-> FALSE, st |-> "none"]

\* Nothing decoded yet.
NoFrame == [type |-> "none", sid |-> 0, fin |-> FALSE, unread |-> 0]

(***************************************************************************)
(* readLoop.                                                               *)
(***************************************************************************)
\* case framing.FRAME_SYN_STREAM of conn.readControlFrame
readSynStream(f) ==
    IF f.sid = 0 \/ f.sid % 2 = 0 \/ f.sid < lastGoodStreamID
    THEN /\ writeRstStreamID(f.sid, STATUS_PROTOCOL_ERROR)
         /\ UNCHANGED <<lastGoodStreamID, streams, hs, liveStreams, streamQ>>
    ELSE /\ lastGoodStreamID' = f.sid
         /\ IF getStream(f.sid) # 0
            THEN /\ writeRstStream(getStream(f.sid), StatusCodeStreamInUse(Version))
                 /\ UNCHANGED <<streams, hs, liveStreams, streamQ>>
            ELSE /\ Len(streamQ) < recvFrameBufSize
                 /\ streams' = Append(streams, NewStream(f))
                 /\ hs' = Append(hs, NewHandler)
                 /\ liveStreams' = addStream(liveStreams, f.sid, Len(streams'))
                 /\ streamQ' = heapPush(streamQ,
                                        [obj |-> Len(streams'), ID |-> f.sid,
                                         Priority |-> f.pri])
                 /\ UNCHANGED <<framesToWrite, frameWriteSeq, panicked>>

\* case framing.FRAME_RST_STREAM of conn.readControlFrame
readRstStream(f) ==
    LET k == getStream(f.sid)
        r == closeStream(streams, liveStreams, k)
    IN  /\ IF k = 0
           THEN UNCHANGED <<streams, liveStreams>>
           ELSE /\ streams' = r.streams
                /\ liveStreams' = r.liveStreams
        /\ UNCHANGED <<lastGoodStreamID, hs, streamQ, framesToWrite, frameWriteSeq,
                       panicked>>

\* The part of conn.readDataFrame after io.Copy returned n = frame.Len().
dataCopied(k, fin) ==
    IF fin
    THEN LET r == PeerHalfClose(streams, liveStreams, k)
         IN  /\ streams' = [r.streams EXCEPT ![k].wclosed = TRUE]
             /\ liveStreams' = r.liveStreams
             /\ UNCHANGED <<framesToWrite, frameWriteSeq, panicked>>
    ELSE /\ UNCHANGED <<streams, liveStreams>>
         /\ IF Version >= 3
            THEN /\ writeFrame(Frame("WINDOW_UPDATE", streams[k].ID, 0, FALSE, 0),
                               streams[k].Priority)
                 /\ UNCHANGED panicked
            ELSE UNCHANGED <<framesToWrite, frameWriteSeq, panicked>>

\* conn.readDataFrame up to the point where io.Copy blocks on the body pipe.
readDataFrame(f) ==
    LET k == getStream(f.sid)
    IN  /\ UNCHANGED <<lastGoodStreamID, hs, streamQ>>
        /\ IF k = 0 \/ streams[k].peerHalfClosed
           THEN /\ writeRstStreamID(f.sid, StatusCodeStreamAlreadyClosed(Version))
                /\ UNCHANGED <<streams, liveStreams, rcur>>
           ELSE IF f.len = 0
           THEN \* io.Copy moves nothing; NewWindowUpdate rejects a delta of 0
                IF f.flags # FLAG_FIN /\ Version >= 3
                THEN /\ panicked' = TRUE
                     /\ UNCHANGED <<streams, liveStreams, rcur, framesToWrite,
                                    frameWriteSeq>>
                ELSE /\ dataCopied(k, f.flags = FLAG_FIN)
                     /\ UNCHANGED rcur
           ELSE IF streams[k].rclosed
           THEN \* io.ErrClosedPipe: the payload is discarded
                UNCHANGED <<streams, liveStreams, rcur, framesToWrite, frameWriteSeq,
                            panicked>>
           ELSE \* the pipe write blocks until the handler reads or closes
                /\ rcur' = [obj |-> k, fin |-> (f.flags = FLAG_FIN), st |-> "blocked"]
                /\ UNCHANGED <<streams, liveStreams, framesToWrite, frameWriteSeq,
                               panicked>>

\* The payload bytes of frame f that are still in the decoder when the reader
\* goes on to its next ReadFrame.  framing.readDataFrame leaves the payload
\* behind an io.LimitReader; conn.readDataFrame returns without reading it when
\* the stream is absent or peer-half-closed, and otherwise copies it to the body
\* pipe or, on io.ErrClosedPipe, to ioutil.Discard.
unreadPayload(f) ==
    IF f.type = "DATA"
       /\ (getStream(f.sid) = 0 \/ streams[getStream(f.sid)].peerHalfClosed)
    THEN f.len
    ELSE 0

\* One turn of the loop of conn.readLoop: decode a frame and dispatch it.  The
\* input holds at most limit frames; after a DATA frame whose payload was left
\* unread the decoder takes the next frame from the payload bytes, which the
\* peer chooses as well.
readLoopTurn(limit) ==
    /\ ~panicked
    /\ rpc = "read" /\ rcur = NoCopy
    /\ nread < limit
    /\ nread' = nread + 1
    /\ UNCHANGED <<Version, wpc, spc, exits, semVars, callVars, pushVars, unitVars>>
    /\ \E f \in InFrames(Version) :
        /\ rframe' = [type |-> f.type, sid |-> f.sid,
                      fin |-> (f.type = "DATA" /\ f.flags = FLAG_FIN),
                      unread |-> unreadPayload(f)]
        /\ CASE f.type = "SYN_STREAM" ->
                /\ readSynStream(f)
                /\ UNCHANGED <<rpc, rerr, rcur>>
             [] f.type = "RST_STREAM" ->
                /\ readRstStream(f)
                /\ UNCHANGED <<rpc, rerr, rcur>>
             [] f.type = "DATA" ->
                /\ readDataFrame(f)
                /\ UNCHANGED <<rpc, rerr>>
             [] f.type = "PING" ->
                /\ writeFrame(Frame("PING", 0, 0, FALSE, 0), maxFramePriority)
                /\ UNCHANGED <<rpc, rerr, rcur, panicked, lastGoodStreamID, streams,
                               hs, liveStreams, streamQ>>
             [] f.type = "SETTINGS" \/ (f.type = "NOOP" /\ Version = 2) ->
                UNCHANGED <<rpc, rerr, rcur, panicked, lastGoodStreamID, streams,
                            hs, liveStreams, streamQ, framesToWrite, frameWriteSeq>>
             [] f.type = "WINDOW_UPDATE" /\ Version >= 3 ->
                \* log.Panic("FRAME_WINDOW_UPDATE must be processed")
                /\ panicked' = TRUE
                /\ UNCHANGED <<rpc, rerr, rcur, lastGoodStreamID, streams,
                               hs, liveStreams, streamQ, framesToWrite, frameWriteSeq>>
             [] OTHER ->
                /\ rpc' = "tail"
                /\ rerr' = CASE f.type = "EOF" -> "EOF"
                             [] f.type = "NetError" -> "net"
                             [] f.type = "GOAWAY" -> "GoAway"
                             [] OTHER -> "protocol"
                /\ UNCHANGED <<rcur, panicked, lastGoodStreamID, streams,
                               hs, liveStreams, streamQ, framesToWrite, frameWriteSeq>>

readLoop == readLoopTurn(MaxFrames)

\* io.Copy in conn.readDataFrame returns: the handler read the payload, or the
\* read end of the pipe was closed (io.ErrClosedPipe, the payload is dropped).
readDataFrameResume ==
    /\ ~panicked
    /\ rcur # NoCopy
    /\ rcur.st = "read" \/ streams[rcur.obj].rclosed
    /\ rcur' = NoCopy
    /\ IF rcur.st = "read"
       THEN dataCopied(rcur.obj, rcur.fin)
       ELSE UNCHANGED <<streams, liveStreams, framesToWrite, frameWriteSeq, panicked>>
    /\ UNCHANGED <<Version, nread, rframe, rpc, rerr, wpc, spc, exits, hs,
                   lastGoodStreamID, streamQ, semVars, callVars, pushVars, unitVars>>

\* priorityQueue.Push: the type assertion x.(PriorityItem) fails on a nil
\* interface value, so pushing nil panics.
priorityQueuePushOK(x) == x # NilItem

isProtocolErrorAlways(err) == TRUE

\* The test of conn.readLoop on the error it left its loop with: anything but
\* errGoAway, io.EOF and a net.Error is a protocol error.
isProtocolError(err) == err \notin {"GoAway", "EOF", "net"}

\* The GOAWAY frame conn.readLoop builds: framing.NewGoAway with the last good
\* stream id, and under v3 SetStatusCode(STATUS_GOAWAY_PROTOCOL_ERROR).
NewGoAway(version, lastGood) ==
    Frame("GOAWAY", lastGood,
          IF version >= 3 THEN STATUS_GOAWAY_PROTOCOL_ERROR ELSE 0, FALSE, 0)

\* conn.readLoop after its loop: GOAWAY on a protocol error, then the two
\* sentinels, then the exit announcement.
readLoopExit ==
    /\ ~panicked
    /\ rpc \in {"tail", "sentinelF", "sentinelS", "exit"}
    /\ UNCHANGED <<Version, nread, rframe, rerr, rcur, wpc, spc, streams, hs,
                   liveStreams, lastGoodStreamID, semVars, callVars, pushVars, unitVars>>
    /\ CASE rpc = "tail" ->
              /\ rpc' = "sentinelF"
              /\ IF isProtocolError(rerr)
                 THEN writeFrame(NewGoAway(Version, lastGoodStreamID),
                                 maxFramePriority)
                 ELSE UNCHANGED <<framesToWrite, frameWriteSeq>>
              /\ UNCHANGED <<exits, panicked, streamQ>>
         [] rpc = "sentinelF" ->
              /\ Len(framesToWrite) < sendFrameBufSize
              /\ framesToWrite' = heapPush(framesToWrite, FrameSentinel)
              /\ rpc' = "sentinelS"
              /\ UNCHANGED <<exits, panicked, streamQ, frameWriteSeq>>
         [] rpc = "sentinelS" ->
              /\ Len(streamQ) < recvFrameBufSize
              /\ IF priorityQueuePushOK(NilItem)
                 THEN /\ streamQ' = heapPush(streamQ, NilItem)
                      /\ rpc' = "exit"
                      /\ UNCHANGED panicked
                 ELSE /\ panicked' = TRUE
                      /\ UNCHANGED <<rpc, streamQ>>
              /\ UNCHANGED <<exits, framesToWrite, frameWriteSeq>>
         [] rpc = "exit" ->
              /\ exits' = exits + 1
              /\ rpc' = "done"
              /\ UNCHANGED <<panicked, streamQ, framesToWrite, frameWriteSeq>>

(***************************************************************************)
(* writeLoop.                                                              *)
(***************************************************************************)
\* The outcomes of framing.WriteFrame followed by c.w.Flush.
WriteResults == {"ok", "net", "other"}

writeLoop ==
    /\ ~panicked
    /\ wpc \in {"pop", "exit", "exitErr"}
    /\ UNCHANGED <<Version, nread, rframe, rpc, rerr, rcur, spc, streams, hs,
                   liveStreams, lastGoodStreamID, streamQ, frameWriteSeq, semVars,
                   callVars, pushVars, unitVars>>
    /\ CASE wpc = "pop" ->
              /\ Len(framesToWrite) > 0
              /\ LET r == heapPop(framesToWrite)
                 IN  /\ framesToWrite' = r.q
                     /\ IF r.item.Frame = NilFrame
                        THEN /\ wpc' = "exit"
                             /\ UNCHANGED panicked
                        ELSE \E res \in WriteResults :
                               CASE res = "ok" ->
                                      UNCHANGED <<wpc, panicked>>
                                 [] res = "net" ->
                                      \* break loop with err set; log.Printf
                                      /\ wpc' = "exitErr"
                                      /\ UNCHANGED panicked
                                 [] OTHER ->
                                      \* log.Panicf("SPDY write error")
                                      /\ panicked' = TRUE
                                      /\ wpc' = "failed"
              /\ UNCHANGED exits
         [] wpc \in {"exit", "exitErr"} ->
              /\ exits' = exits + 1
              /\ wpc' = "done"
              /\ UNCHANGED <<framesToWrite, panicked>>

(***************************************************************************)
(* serveLoop and serveStream.                                              *)
(***************************************************************************)
serveLoop ==
    /\ ~panicked
    /\ spc \in {"pop", "exit"}
    /\ UNCHANGED <<Version, nread, rframe, rpc, rerr, rcur, wpc, streams, liveStreams,
                   lastGoodStreamID, framesToWrite, frameWriteSeq, semVars, callVars, pushVars, unitVars>>
    /\ CASE spc = "pop" ->
              /\ Len(streamQ) > 0
              /\ LET r == heapPop(streamQ)
                 IN  /\ streamQ' = r.q
                     /\ IF r.item = NilItem
                        THEN \* heap.Pop(&bq.q).(PriorityItem) on a nil interface
                             /\ panicked' = TRUE
                             /\ UNCHANGED <<spc, hs>>
                        ELSE /\ hs' = [hs EXCEPT ![r.item.obj].pc = "start"]
                             /\ UNCHANGED <<spc, panicked>>
              /\ UNCHANGED exits
         [] spc = "exit" ->
              /\ exits' = exits + 1
              /\ spc' = "done"
              /\ UNCHANGED <<streamQ, hs, panicked>>

\* What the handler passed to c.Handler.ServeHTTP may do next.
HandlerOps == {"Write", "Read", "return"}

\* responseWriter.writeBufFrame(fin) of stream object k, without Content-Length.
writeBufFrame(k, fin) ==
    /\ writeFrame(ResponseFrame("DATA", k, streams[k].ID, fin, hs[k].nflush + 1),
                  streams[k].Priority)
    /\ hs' = [hs EXCEPT ![k].nflush = @ + 1,
                        ![k].pc = IF fin THEN "halfClose" ELSE "run"]

\* One step of the goroutine conn.serveStream of stream object k.
serveStream(k) ==
    /\ ~panicked
    /\ hs[k].pc \in {"start", "run", "halfClose"}
    /\ UNCHANGED <<Version, nread, rframe, rpc, rerr, wpc, spc, exits,
                   lastGoodStreamID, streamQ, semVars, callVars, pushVars, unitVars>>
    /\ CASE hs[k].pc = "start" ->
              \E ok \in BOOLEAN :      \* whether httpRequest accepts the headers
                IF ~ok
                THEN /\ writeRstStream(k, STATUS_PROTOCOL_ERROR)
                     /\ hs' = [hs EXCEPT ![k].pc = "done"]
                     /\ UNCHANGED <<streams, liveStreams, rcur>>
                ELSE /\ hs' = [hs EXCEPT ![k].pc =
                                  IF streams[k].halfClosed THEN "done" ELSE "run"]
                     /\ UNCHANGED <<streams, liveStreams, rcur, framesToWrite,
                                    frameWriteSeq, panicked>>
         [] hs[k].pc = "run" ->
              \E op \in HandlerOps :
                CASE op = "Write" ->
                       \* the first Write sends the control frame and buffers; a
                       \* later Write fills the buffer and flushes a DATA frame
                       /\ IF ~hs[k].ctrlFrameWritten
                          THEN /\ writeFrame(ResponseFrame("SYN_REPLY", k,
                                                 streams[k].ID, FALSE, 0),
                                             streams[k].Priority)
                               /\ hs' = [hs EXCEPT ![k].ctrlFrameWritten = TRUE]
                          ELSE /\ hs[k].nflush < MaxData
                               /\ writeBufFrame(k, FALSE)
                       /\ UNCHANGED <<streams, liveStreams, rcur, panicked>>
                  [] op = "Read" ->
                       \* the handler reads the request body from the pipe
                       /\ rcur.obj = k /\ rcur.st = "blocked"
                       /\ rcur' = [rcur EXCEPT !.st = "read"]
                       /\ UNCHANGED <<streams, liveStreams, hs, framesToWrite,
                                      frameWriteSeq, panicked>>
                  [] OTHER ->
                       \* the handler returns: the deferred responseWriter.Close
                       /\ IF ~hs[k].ctrlFrameWritten
                          THEN /\ writeFrame(ResponseFrame("SYN_REPLY", k,
                                                 streams[k].ID, TRUE, 0),
                                             streams[k].Priority)
                               /\ hs' = [hs EXCEPT ![k].ctrlFrameWritten = TRUE,
                                                   ![k].pc = "halfClose"]
                          ELSE writeBufFrame(k, TRUE)
                       /\ UNCHANGED <<streams, liveStreams, rcur, panicked>>
         [] hs[k].pc = "halfClose" ->
              \* the rest of the deferred function: stream.Reader.reader.Close()
              \* and stream.HalfClose(c)
              LET closed == IF streams[k].Reader
                            THEN [streams EXCEPT ![k].rclosed = TRUE] ELSE streams
                  r == HalfClose(closed, liveStreams, k)
              IN  /\ streams' = r.streams
                  /\ liveStreams' = r.liveStreams
                  /\ hs' = [hs EXCEPT ![k].pc = "done"]
                  /\ UNCHANGED <<rcur, framesToWrite, frameWriteSeq, panicked>>

(***************************************************************************)
(* The connection: conn.Serve starts the three loops.                      *)
(***************************************************************************)
\* The fields of a conn as conn.Serve sets them before starting the loops.
ConnInit ==
    /\ Version \in {2, 3}
    /\ nread = 0
    /\ rframe = NoFrame
    /\ rpc = "read"
    /\ rerr = "none"
    /\ rcur = NoCopy
    /\ wpc = "pop"
    /\ spc = "pop"
    /\ exits = 0
    /\ panicked = FALSE
    /\ streams = <<>>
    /\ hs = <<>>
    /\ liveStreams = [id \in 0..MaxStreamID |-> 0]
    /\ lastGoodStreamID = 0
    /\ streamQ = <<>>
    /\ framesToWrite = <<>>
    /\ frameWriteSeq = 0

\* NewBlockingPriorityQueue: an empty heap and newSemaphore(0, size), no caller yet.
QueueInit ==
    /\ q = <<>>
    /\ value = 0
    /\ l = 0
    /\ gpc = [g \in 1..MaxCallers |-> "idle"]
    /\ gitem = [g \in 1..MaxCallers |-> FrameSentinel]
    /\ ncalls = 0

\* No setter has been called.
NoCall == [fn |-> "none", s |-> 0, set |-> FALSE]

CallInit ==
    /\ call = NoCall
    /\ nsetter = 0

\* A conn.push call that has not been made.
NoPush == [conn |-> 0, pri |-> 0, tmp |-> 0, id |-> 0, obj |-> 0,
           ctrlFrameWritten |-> FALSE, nflush |-> 0]

\* The registry and the egress queue of a connection as conn.Serve creates them.
NewConn == [liveStreams |-> [id \in 0..(2 * MaxPushes) |-> 0],
            framesToWrite |-> <<>>,
            frameWriteSeq |-> 0]

\* No response writer has been created.
NoWriter == [pc |-> "none", ctrlFrame |-> "none",
             writeHeaderCalled |-> FALSE, ctrlFrameWritten |-> FALSE,
             buf |-> 0, contentLen |-> 0, writtenLen |-> 0,
             frames |-> <<>>, total |-> 0, nwrite |-> 0,
             bytes |-> <<>>, payloads |-> <<>>,
             headers |-> {}, ctrlSubmitted |-> <<>>,
             ret |-> [op |-> "none", lenP |-> 0, n |-> 0, err |-> FALSE]]

\* An empty priorityQueue; kind is the type of the items it will hold.
NoBatch == [kind |-> "none", q |-> <<>>, pushed |-> <<>>, popped |-> <<>>]

\* k zero bits.  A uint32 is a sequence of 32 bits and a byte one of 8, the
\* most significant bit first.
Zeros(k) == [i \in 1..k |-> 0]

\* NewEncoder and NewDecoder on one bytes.Buffer; fields and got record the
\* WriteBits calls made and what the ReadBits calls returned.
NewCodec == [e |-> [b |-> Zeros(8), pending |-> 0],
             d |-> [b |-> Zeros(8), leftOver |-> 0, readBuf |-> [i \in 1..4 |-> Zeros(8)]],
             buffer |-> <<>>, fields |-> <<>>, got |-> <<>>,
             frame |-> [pc |-> "none"]]

\* var b headerBlockV2: the nil slice; calls records the Add calls made.
NewHeaderBlock == [h |-> <<>>, calls |-> <<>>]

\* var s settingEntriesV2: the nil slice; calls records the Set calls made.
NewSettingEntries == [s |-> <<>>, calls |-> <<>>]

\* No statushook writer has been created.  under is the sequence of calls made
\* on the wrapped http.ResponseWriter; code is the argument of the WriteHeader
\* that invoked the hook; hookRuns, hookCalled and last record what was called.
NoHook == [pc |-> "none", hooked |-> FALSE, wroteHeader |-> FALSE, inHook |-> FALSE,
           code |-> 0, under |-> <<>>, ncalls |-> 0, hookRuns |-> 0,
           hookCalled |-> FALSE,
           last |-> [op |-> "none", from |-> "none", len |-> 0, n |-> 0]]

\* The components run on their own before their first call.
\* The goroutines of SpecLocks and the stream objects they work on.
Lockers == 1..MaxLockers
LockStreams == 1..2

\* The mutexes: conn.mtxLiveStreams, and mtxClosed of each stream object.
mtxLiveStreams == 0
Mutexes == {mtxLiveStreams} \cup LockStreams

\* No goroutine is in a call, every sync.RWMutex is free (w the writer, r the
\* readers), no stream is registered and no flag is raised.
NoLocks == [pc |-> [g \in Lockers |-> "idle"],
            fn |-> [g \in Lockers |-> "none"],
            s |-> [g \in Lockers |-> 1],
            w |-> [m \in Mutexes |-> 0],
            r |-> [m \in Mutexes |-> {}],
            peerHalfClosed |-> [s \in LockStreams |-> FALSE],
            halfClosed |-> [s \in LockStreams |-> FALSE],
            live |-> [s \in LockStreams |-> FALSE],
            ncalls |-> 0]

UnitInit ==
    /\ rw = NoWriter
    /\ pq = NoBatch
    /\ codec = NewCodec
    /\ hb = NewHeaderBlock
    /\ se = NewSettingEntries
    /\ hk = NoHook
    /\ lk = NoLocks

\* The process at start: nextServerStreamID is the zero value, no push yet.
PushInit ==
    /\ nextServerStreamID = 0
    /\ lockNextServerStreamID = 0
    /\ ppc = [p \in 1..MaxPushes |-> "idle"]
    /\ plocal = [p \in 1..MaxPushes |-> NoPush]
    /\ issued = <<>>
    /\ pconn = [c \in 1..MaxConns |-> NewConn]

Init == ConnInit /\ QueueInit /\ CallInit /\ PushInit /\ UnitInit

Next ==
    \/ readLoop
    \/ readDataFrameResume
    \/ readLoopExit
    \/ writeLoop
    \/ serveLoop
    \/ \E k \in 1..Len(streams) : serveStream(k)

Spec == Init /\ [][Next]_vars

\* The Go scheduler runs every goroutine that can take a step; the peer and
\* therefore the reader's next frame are under no such obligation.
FairSpec ==
    /\ Spec
    /\ WF_vars(readDataFrameResume)
    /\ WF_vars(readLoopExit)
    /\ WF_vars(writeLoop)
    /\ WF_vars(serveLoop)
    /\ \A k \in 1..MaxFrames : WF_vars(k \in 1..Len(streams) /\ serveStream(k))

\* The connection while handlers may stall: every goroutine of the engine is
\* scheduled and the peer keeps sending, but a handler, which is the
\* application's code, is under no obligation to read its body or to return
\* (the steps of conn.serveStream before and after the handler are scheduled).
StalledHandlerSpec ==
    /\ Spec
    /\ WF_vars(readLoop)
    /\ WF_vars(readDataFrameResume)
    /\ WF_vars(readLoopExit)
    /\ WF_vars(writeLoop)
    /\ WF_vars(serveLoop)
    /\ \A k \in 1..MaxFrames :
         WF_vars(/\ k \in 1..Len(streams)
                 /\ hs[k].pc \in {"start", "halfClose"}
                 /\ serveStream(k))

(***************************************************************************)
(* SpecReader: the connection while only readLoop is scheduled.            *)
(***************************************************************************)
readLoopAhead == readLoopTurn(MaxAheadFrames)

NextReader ==
    \/ readLoopAhead
    \/ readLoopExit

SpecReader == Init /\ [][NextReader]_vars

(***************************************************************************)
(* SpecReuse: the reader receiving SYN_STREAM and RST_STREAM frames for    *)
(* stream id 1 while serveLoop starts the handlers and the handlers run.   *)
(***************************************************************************)
readLoopStreamOne ==
    /\ readLoopAhead
    /\ rframe'.type \in {"SYN_STREAM", "RST_STREAM"}
    /\ rframe'.sid = 1

NextReuse ==
    \/ readLoopStreamOne
    \/ serveLoop
    \/ \E k \in 1..Len(streams) : serveStream(k)

SpecReuse == Init /\ [][NextReuse]_vars

(***************************************************************************)
(* SpecQ: one BlockingPriorityQueue of size QueueCap and the goroutines    *)
(* 1..MaxCallers calling Push and Pop.  A goroutine inside sync.Cond.Wait  *)
(* is at "notFull.Wait" or "notEmpty.Wait"; Wait has released the mutex.   *)
(***************************************************************************)
\* semaphore.maxValue as NewBlockingPriorityQueue(size) sets it.
maxValue == QueueCap

IncLockNeverWaits(v) == FALSE

\* The loop test of semaphore.IncLock.
isFull(v) == v = maxValue

\* The loop test of semaphore.DecLock.
isEmpty(v) == v = 0

SignalWakesNone(pcs, waitpc, wakepc) == {pcs}

\* sync.Cond.Signal: the positions after one goroutine waiting at waitpc, if
\* there is any, has been woken; it leaves Wait by locking the mutex again.
Signal(pcs, waitpc, wakepc) ==
    IF \A w \in DOMAIN pcs : pcs[w] # waitpc
    THEN {pcs}
    ELSE {[pcs EXCEPT ![w] = wakepc] : w \in {w \in DOMAIN pcs : pcs[w] = waitpc}}

\* The items the callers push: frames at either end of the priority range.
PushItems ==
    {[Priority |-> p, Seq |-> 0, Frame |-> Frame("PING", 0, 0, FALSE, 0)] :
        p \in {MIN_PRIORITY, maxFramePriority}}

\* A goroutine calls BlockingPriorityQueue.Push.
PushCall(g) ==
    /\ gpc[g] = "idle"
    /\ ncalls < MaxCalls
    /\ ncalls' = ncalls + 1
    /\ \E x \in PushItems : gitem' = [gitem EXCEPT ![g] = x]
    /\ gpc' = [gpc EXCEPT ![g] = "IncLock"]
    /\ UNCHANGED <<q, value, l, connVars, callVars, pushVars, unitVars>>

\* semaphore.IncLock from s.l.Lock() on; a goroutine woken in Wait is here again.
IncLock(g) ==
    /\ gpc[g] = "IncLock"
    /\ l = 0
    /\ IF isFull(value)
       THEN /\ gpc' = [gpc EXCEPT ![g] = "notFull.Wait"]
            /\ UNCHANGED <<value, l>>
       ELSE /\ value' = value + 1
            /\ l' = g
            /\ \E pcs \in Signal(gpc, "notEmpty.Wait", "DecLock") :
                 gpc' = [pcs EXCEPT ![g] = "heap.Push"]
    /\ UNCHANGED <<q, gitem, ncalls, connVars, callVars, pushVars, unitVars>>

\* BlockingPriorityQueue.Push after IncLock: heap.Push and the deferred Unlock.
PushReturn(g) ==
    /\ gpc[g] = "heap.Push"
    /\ q' = heapPush(q, gitem[g])
    /\ l' = 0
    /\ gpc' = [gpc EXCEPT ![g] = "idle"]
    /\ UNCHANGED <<value, gitem, ncalls, connVars, callVars, pushVars, unitVars>>

\* A goroutine calls BlockingPriorityQueue.Pop.
PopCall(g) ==
    /\ gpc[g] = "idle"
    /\ ncalls < MaxCalls
    /\ ncalls' = ncalls + 1
    /\ gpc' = [gpc EXCEPT ![g] = "DecLock"]
    /\ UNCHANGED <<q, value, l, gitem, connVars, callVars, pushVars, unitVars>>

\* semaphore.DecLock from s.l.Lock() on; a goroutine woken in Wait is here again.
DecLock(g) ==
    /\ gpc[g] = "DecLock"
    /\ l = 0
    /\ IF isEmpty(value)
       THEN /\ gpc' = [gpc EXCEPT ![g] = "notEmpty.Wait"]
            /\ UNCHANGED <<value, l>>
       ELSE /\ value' = value - 1
            /\ l' = g
            /\ \E pcs \in Signal(gpc, "notFull.Wait", "IncLock") :
                 gpc' = [pcs EXCEPT ![g] = "heap.Pop"]
    /\ UNCHANGED <<q, gitem, ncalls, connVars, callVars, pushVars, unitVars>>

\* BlockingPriorityQueue.Pop after DecLock: heap.Pop and the deferred Unlock.
PopReturn(g) ==
    /\ gpc[g] = "heap.Pop"
    /\ q' = heapPop(q).q
    /\ l' = 0
    /\ gpc' = [gpc EXCEPT ![g] = "idle"]
    /\ UNCHANGED <<value, gitem, ncalls, connVars, callVars, pushVars, unitVars>>

NextQ ==
    \/ \E g \in 1..MaxCallers : PushCall(g)
    \/ \E g \in 1..MaxCallers : IncLock(g)
    \/ \E g \in 1..MaxCallers : PushReturn(g)
    \/ \E g \in 1..MaxCallers : PopCall(g)
    \/ \E g \in 1..MaxCallers : DecLock(g)
    \/ \E g \in 1..MaxCallers : PopReturn(g)

SpecQ == Init /\ [][NextQ]_vars

\* The Go scheduler runs every goroutine that can take a step, and a mutex
\* that is free is given to a goroutine that asks for it; the callers are
\* under no obligation to call Push or Pop.
FairSpecQ ==
    /\ SpecQ
    /\ \A g \in 1..MaxCallers :
         /\ WF_vars(IncLock(g))
         /\ WF_vars(PushReturn(g))
         /\ WF_vars(DecLock(g))
         /\ WF_vars(PopReturn(g))

(***************************************************************************)
(* SpecHalfClose: the two setters of the half-close flags, called on two   *)
(* stream objects in the states the engine leaves streams in: flags raised *)
(* or not, registered or dropped from the registry, possibly the same id   *)
(* (a closed stream and the stream that reuses its id).                    *)
(***************************************************************************)
\* The odd stream ids of the model.
ClientIDs == {id \in 1..MaxStreamID : id % 2 = 1}

\* The SYN_STREAM frames readControlFrame accepts on a connection.
AcceptedSyn(version) ==
    {f \in InFrames(version) : f.type = "SYN_STREAM" /\ f.sid \in ClientIDs}

\* A stream as readControlFrame created it, with each half-close flag as
\* created or raised since.
StreamStates(version) ==
    UNION {{[NewStream(f) EXCEPT !.peerHalfClosed = p, !.halfClosed = h] :
              p \in {f.flags = FLAG_FIN, TRUE},
              h \in {f.flags = FLAG_UNIDIRECTIONAL, TRUE}} :
           f \in AcceptedSyn(version)}

\* Two stream objects; the registry holds a stream only under its own id, and
\* never one that is closed in both directions.
InitHalfClose ==
    /\ QueueInit
    /\ CallInit
    /\ PushInit
    /\ UnitInit
    /\ Version \in {2, 3}
    /\ nread = 0
    /\ rframe = NoFrame
    /\ rpc = "read"
    /\ rerr = "none"
    /\ rcur = NoCopy
    /\ wpc = "pop"
    /\ spc = "pop"
    /\ exits = 0
    /\ panicked = FALSE
    /\ lastGoodStreamID = 0
    /\ streamQ = <<>>
    /\ framesToWrite = <<>>
    /\ frameWriteSeq = 0
    /\ hs = <<NewHandler, NewHandler>>
    /\ \E s1 \in StreamStates(Version), s2 \in StreamStates(Version) :
         streams = <<s1, s2>>
    /\ liveStreams \in [0..MaxStreamID -> 0..2]
    /\ \A id \in 0..MaxStreamID :
         liveStreams[id] # 0 =>
            /\ streams[liveStreams[id]].ID = id
            /\ ~(streams[liveStreams[id]].peerHalfClosed
                 /\ streams[liveStreams[id]].halfClosed)

\* A caller runs stream.PeerHalfClose on stream object k.
callPeerHalfClose(k) ==
    /\ nsetter < MaxSetterCalls
    /\ nsetter' = nsetter + 1
    /\ call' = [fn |-> "PeerHalfClose", s |-> k, set |-> streams[k].peerHalfClosed]
    /\ LET r == PeerHalfClose(streams, liveStreams, k)
       IN  /\ streams' = r.streams
           /\ liveStreams' = r.liveStreams
    /\ UNCHANGED <<Version, nread, rframe, rpc, rerr, rcur, wpc, spc, exits, panicked,
                   hs, lastGoodStreamID, streamQ, framesToWrite, frameWriteSeq,
                   semVars, pushVars, unitVars>>

\* A caller runs stream.HalfClose on stream object k.
callHalfClose(k) ==
    /\ nsetter < MaxSetterCalls
    /\ nsetter' = nsetter + 1
    /\ call' = [fn |-> "HalfClose", s |-> k, set |-> streams[k].halfClosed]
    /\ LET r == HalfClose(streams, liveStreams, k)
       IN  /\ streams' = r.streams
           /\ liveStreams' = r.liveStreams
    /\ UNCHANGED <<Version, nread, rframe, rpc, rerr, rcur, wpc, spc, exits, panicked,
                   hs, lastGoodStreamID, streamQ, framesToWrite, frameWriteSeq,
                   semVars, pushVars, unitVars>>

NextHalfClose ==
    \/ \E k \in 1..Len(streams) : callPeerHalfClose(k)
    \/ \E k \in 1..Len(streams) : callHalfClose(k)

SpecHalfClose == InitHalfClose /\ [][NextHalfClose]_vars

(***************************************************************************)
(* SpecEgress: goroutines calling conn.writeFrame step by step (the filter, *)
(* then the Push) while other goroutines call the half-close setters on the *)
(* same streams.  writeFrame holds no lock between its filter and its Push. *)
(***************************************************************************)
\* The frames the callers submit: a DATA frame of a response or the reader's
\* WINDOW_UPDATE for a stream object, or a PING echo.
EgressFrames ==
    {[Priority |-> streams[k].Priority, Seq |-> 0,
      Frame |-> ResponseFrame("DATA", k, streams[k].ID, FALSE, 1)] :
        k \in 1..Len(streams)}
    \cup {[Priority |-> streams[k].Priority, Seq |-> 0,
           Frame |-> Frame("WINDOW_UPDATE", streams[k].ID, 0, FALSE, 0)] :
        k \in 1..Len(streams)}
    \cup {[Priority |-> maxFramePriority, Seq |-> 0,
           Frame |-> Frame("PING", 0, 0, FALSE, 0)]}

\* A goroutine calls conn.writeFrame(f, priority).
writeFrameCall(g) ==
    /\ gpc[g] = "idle"
    /\ ncalls < MaxWrites
    /\ ncalls' = ncalls + 1
    /\ \E x \in EgressFrames : gitem' = [gitem EXCEPT ![g] = x]
    /\ gpc' = [gpc EXCEPT ![g] = "writeFrame.filter"]
    /\ UNCHANGED <<q, value, l, connVars, callVars, pushVars, unitVars>>

\* The filter of conn.writeFrame: c.getStream and stream.HalfClosed, each under
\* its own read lock, released before the Push.
writeFrameFilter(g) ==
    /\ gpc[g] = "writeFrame.filter"
    /\ gpc' = [gpc EXCEPT ![g] = IF Discarded(gitem[g].Frame)
                                 THEN "idle" ELSE "framesToWrite.Push"]
    /\ UNCHANGED <<q, value, l, gitem, ncalls, connVars, callVars, pushVars, unitVars>>

\* The Push that ends conn.writeFrame, with the sequence number taken.
writeFramePush(g) ==
    /\ gpc[g] = "framesToWrite.Push"
    /\ Len(framesToWrite) < sendFrameBufSize
    /\ frameWriteSeq' = nextFrameWriteSeq(frameWriteSeq)
    /\ framesToWrite' = heapPush(framesToWrite,
                                 [gitem[g] EXCEPT !.Seq = frameWriteSeq'])
    /\ gpc' = [gpc EXCEPT ![g] = "idle"]
    /\ UNCHANGED <<Version, nread, rframe, rpc, rerr, rcur, wpc, spc, exits, panicked,
                   streams, hs, liveStreams, lastGoodStreamID, streamQ>>
    /\ UNCHANGED <<q, value, l, gitem, ncalls, callVars, pushVars, unitVars>>

\* One stream as readControlFrame registered it, its handler not yet started.
InitEgress ==
    /\ QueueInit
    /\ CallInit
    /\ PushInit
    /\ UnitInit
    /\ Version \in {2, 3}
    /\ nread = 0
    /\ rframe = NoFrame
    /\ rpc = "read"
    /\ rerr = "none"
    /\ rcur = NoCopy
    /\ wpc = "pop"
    /\ spc = "pop"
    /\ exits = 0
    /\ panicked = FALSE
    /\ streamQ = <<>>
    /\ framesToWrite = <<>>
    /\ frameWriteSeq = 0
    /\ hs = <<NewHandler>>
    /\ \E f \in AcceptedSyn(Version) :
         /\ streams = <<NewStream(f)>>
         /\ lastGoodStreamID = f.sid
         /\ liveStreams = addStream([id \in 0..MaxStreamID |-> 0], f.sid, 1)

NextEgress ==
    \/ \E g \in 1..MaxCallers : writeFrameCall(g)
    \/ \E g \in 1..MaxCallers : writeFrameFilter(g)
    \/ \E g \in 1..MaxCallers : writeFramePush(g)
    \/ \E k \in 1..Len(streams) : callPeerHalfClose(k)
    \/ \E k \in 1..Len(streams) : callHalfClose(k)

SpecEgress == InitEgress /\ [][NextEgress]_vars

(***************************************************************************)
(* SpecPush: handlers on the connections 1..MaxConns of one process call    *)
(* conn.push, each call in a goroutine of its own, stepped through          *)
(* newServerStreamID (the mutex, the load and the store of the counter).    *)
(***************************************************************************)
mutexAlwaysFree(holder) == TRUE

\* lockNextServerStreamID.Lock() returns only while no goroutine holds it.
mutexFree(holder) == holder = 0

\* framing.NewSynStream rejects stream id 0.
NewSynStreamOK(streamID) == streamID # 0

\* The stream object conn.push builds.
PushedStream(id, priority) ==
    [ID |-> id, Priority |-> priority,
     peerHalfClosed |-> TRUE, halfClosed |-> FALSE,
     Reader |-> FALSE, rclosed |-> FALSE, wclosed |-> FALSE]

\* conn.writeFrame on connection record cs, as the record after it.
connWriteFrame(cs, f, priority) ==
    IF /\ FrameWithStreamID(f)
       /\ \/ cs.liveStreams[f.sid] = 0
          \/ streams[cs.liveStreams[f.sid]].halfClosed
    THEN cs
    ELSE [cs EXCEPT !.frameWriteSeq = nextFrameWriteSeq(@),
                    !.framesToWrite =
                        heapPush(@, [Priority |-> priority,
                                     Seq |-> nextFrameWriteSeq(cs.frameWriteSeq),
                                     Frame |-> f])]

\* A handler of connection c calls conn.push(associated, priority, r).
pushCall(p) ==
    /\ ppc[p] = "idle"
    /\ \E c \in 1..MaxConns, pri \in Priorities(Version) :
         plocal' = [plocal EXCEPT ![p] = [NoPush EXCEPT !.conn = c, !.pri = pri]]
    /\ ppc' = [ppc EXCEPT ![p] = "Lock"]
    /\ UNCHANGED <<nextServerStreamID, lockNextServerStreamID, issued, pconn>>
    /\ UNCHANGED <<connVars, semVars, callVars, unitVars>>

\* newServerStreamID: lockNextServerStreamID.Lock()
newServerStreamIDLock(p) ==
    /\ ppc[p] = "Lock"
    /\ mutexFree(lockNextServerStreamID)
    /\ lockNextServerStreamID' = p
    /\ ppc' = [ppc EXCEPT ![p] = "load"]
    /\ UNCHANGED <<nextServerStreamID, plocal, issued, pconn>>
    /\ UNCHANGED <<connVars, semVars, callVars, unitVars>>

\* newServerStreamID: the load of nextServerStreamID += 2
newServerStreamIDLoad(p) ==
    /\ ppc[p] = "load"
    /\ plocal' = [plocal EXCEPT ![p].tmp = nextServerStreamID]
    /\ ppc' = [ppc EXCEPT ![p] = "store"]
    /\ UNCHANGED <<nextServerStreamID, lockNextServerStreamID, issued, pconn>>
    /\ UNCHANGED <<connVars, semVars, callVars, unitVars>>

\* newServerStreamID: the store of nextServerStreamID += 2.  The counter is a
\* uint32 and wraps after 2^31 calls; MaxPushes calls stay far below that.
newServerStreamIDStore(p) ==
    /\ ppc[p] = "store"
    /\ nextServerStreamID' = plocal[p].tmp + 2
    /\ ppc' = [ppc EXCEPT ![p] = "return"]
    /\ UNCHANGED <<lockNextServerStreamID, plocal, issued, pconn>>
    /\ UNCHANGED <<connVars, semVars, callVars, unitVars>>

\* newServerStreamID: return nextServerStreamID, then the deferred Unlock.
newServerStreamIDReturn(p) ==
    /\ ppc[p] = "return"
    /\ plocal' = [plocal EXCEPT ![p].id = nextServerStreamID]
    /\ issued' = Append(issued, [conn |-> plocal[p].conn, id |-> nextServerStreamID])
    /\ lockNextServerStreamID' = 0
    /\ ppc' = [ppc EXCEPT ![p] = "addStream"]
    /\ UNCHANGED <<nextServerStreamID, pconn>>
    /\ UNCHANGED <<connVars, semVars, callVars, unitVars>>

\* conn.push: the stream literal, c.addStream, newServerPushSynStream (log.Panic
\* on its error) and newResponseWriter.
pushAddStream(p) ==
    /\ ppc[p] = "addStream"
    /\ ~panicked
    /\ streams' = Append(streams, PushedStream(plocal[p].id, plocal[p].pri))
    /\ plocal' = [plocal EXCEPT ![p].obj = Len(streams')]
    /\ pconn' = [pconn EXCEPT ![plocal[p].conn].liveStreams =
                    addStream(@, plocal[p].id, Len(streams'))]
    /\ IF NewSynStreamOK(plocal[p].id)
       THEN /\ ppc' = [ppc EXCEPT ![p] = "ServeHTTP"]
            /\ UNCHANGED panicked
       ELSE /\ panicked' = TRUE
            /\ UNCHANGED ppc
    /\ UNCHANGED <<nextServerStreamID, lockNextServerStreamID, issued>>
    /\ UNCHANGED <<Version, nread, rframe, rpc, rerr, rcur, wpc, spc, exits, hs,
                   liveStreams, lastGoodStreamID, streamQ, framesToWrite,
                   frameWriteSeq>>
    /\ UNCHANGED <<semVars, callVars, unitVars>>

\* conn.push: c.Handler.ServeHTTP(w, r) and w.Close().  The first Write sends
\* the SYN_STREAM, a later Write flushes a DATA frame; Close sends the last DATA
\* frame with FIN, or nothing when no body was written (a SYN_STREAM has no
\* SetFlags).  push then returns.
pushServeHTTP(p) ==
    /\ ppc[p] = "ServeHTTP"
    /\ ~panicked
    /\ LET c == plocal[p].conn
           k == plocal[p].obj
       IN  \E op \in {"Write", "return"} :
             IF op = "Write"
             THEN IF ~plocal[p].ctrlFrameWritten
                  THEN /\ pconn' = [pconn EXCEPT ![c] =
                                      connWriteFrame(@, ResponseFrame("SYN_STREAM", k,
                                                         plocal[p].id, FALSE, 0),
                                                     plocal[p].pri)]
                       /\ plocal' = [plocal EXCEPT ![p].ctrlFrameWritten = TRUE]
                       /\ UNCHANGED ppc
                  ELSE /\ plocal[p].nflush < MaxData
                       /\ pconn' = [pconn EXCEPT ![c] =
                                      connWriteFrame(@, ResponseFrame("DATA", k,
                                                         plocal[p].id, FALSE,
                                                         plocal[p].nflush + 1),
                                                     plocal[p].pri)]
                       /\ plocal' = [plocal EXCEPT ![p].nflush = @ + 1]
                       /\ UNCHANGED ppc
             ELSE /\ ppc' = [ppc EXCEPT ![p] = "done"]
                  /\ IF plocal[p].ctrlFrameWritten
                     THEN /\ pconn' = [pconn EXCEPT ![c] =
                                         connWriteFrame(@, ResponseFrame("DATA", k,
                                                            plocal[p].id, TRUE,
                                                            plocal[p].nflush + 1),
                                                        plocal[p].pri)]
                          /\ plocal' = [plocal EXCEPT ![p].nflush = @ + 1]
                     ELSE UNCHANGED <<pconn, plocal>>
    /\ UNCHANGED <<nextServerStreamID, lockNextServerStreamID, issued>>
    /\ UNCHANGED <<connVars, semVars, callVars, unitVars>>

NextPush ==
    \/ \E p \in 1..MaxPushes : pushCall(p)
    \/ \E p \in 1..MaxPushes : newServerStreamIDLock(p)
    \/ \E p \in 1..MaxPushes : newServerStreamIDLoad(p)
    \/ \E p \in 1..MaxPushes : newServerStreamIDStore(p)
    \/ \E p \in 1..MaxPushes : newServerStreamIDReturn(p)
    \/ \E p \in 1..MaxPushes : pushAddStream(p)
    \/ \E p \in 1..MaxPushes : pushServeHTTP(p)

SpecPush == Init /\ [][NextPush]_vars

(***************************************************************************)
(* SpecWriter: one response writer (responseWriterV2 and responseWriterV3   *)
(* have the same code) driven by a handler: WriteHeader, Write, Close.  The *)
(* body bytes are counted, not kept; rw.frames is the sequence of frames    *)
(* the writer handed to conn.writeFrame and conn.writeRstStream.  The       *)
(* stream of a running handler is not half closed: stream.HalfClose is      *)
(* called after w.Close() only.                                             *)
(***************************************************************************)
\* len(p) of the Write calls.
WriteLens == {0, 3, 5, MAX_DATA_LEN, MAX_DATA_LEN + 5, 2 * MAX_DATA_LEN}

\* The "Content-Length" entry of w.header when WriteHeader runs: absent, not a
\* number, or a number.
ContentLengthHeaders ==
    {[present |-> FALSE, number |-> FALSE, val |-> 0],
     [present |-> TRUE, number |-> FALSE, val |-> 0]}
    \cup {[present |-> TRUE, number |-> TRUE, val |-> v] :
              v \in {0, 5, MAX_DATA_LEN, MAX_DATA_LEN + 5}}

\* strconv.Atoi(values[0])
Atoi(h) == [l |-> IF h.number THEN h.val ELSE 0, err |-> ~h.number]

avaiWholeBuffer(w) == MAX_DATA_LEN

\* avai := MAX_DATA_LEN - w.buf.Len()
avai(w) == MAX_DATA_LEN - w.buf

exceedsNever(writtenLen, contentLen) == FALSE

\* writtenLen > w.contentLen
exceeds(writtenLen, contentLen) == writtenLen > contentLen

\* The bytes handed to Write are told apart by their position in the
\* concatenation of all slices handed to Write so far; a run of bytes is the
\* sequence of the intervals from..to-1 of positions it is made of.
\* bytes.Buffer.Write and append: run b after run a.
AppendBytes(a, b) ==
    IF b = <<>> THEN a
    ELSE IF a = <<>> THEN b
    ELSE IF a[Len(a)].to = b[1].from
    THEN SubSeq(a, 1, Len(a) - 1)
         \o <<[from |-> a[Len(a)].from, to |-> b[1].to]>>
         \o SubSeq(b, 2, Len(b))
    ELSE a \o b

sliceNotAdvanced(w, lenP, rest, n) ==
    IF n = 0 THEN <<>> ELSE <<[from |-> w.total, to |-> w.total + n]>>

\* p[:n] in the loop of Write, where p is the last rest bytes of the slice of
\* lenP bytes the call was given (p = p[avai:] after each flush).
slice(w, lenP, rest, n) ==
    IF n = 0 THEN <<>>
    ELSE <<[from |-> w.total + (lenP - rest), to |-> w.total + (lenP - rest) + n]>>

\* A frame as the writer submits it; by is the method the call came from.
SubmittedFrame(type, len, fin, code, by) ==
    [type |-> type, len |-> len, fin |-> fin, code |-> code, by |-> by]

\* The names under which WriteHeader adds the status and the version.
StatusHeader(version) == IF version = 2 THEN "status" ELSE ":status"
VersionHeader(version) == IF version = 2 THEN "version" ELSE ":version"

\* The names in the header block of a new control frame: none in a SYN_REPLY
\* of framing.NewSynReply, those of newServerPushSynStream in a SYN_STREAM.
NewCtrlFrameHeaders(version, ctrlFrame) ==
    IF ctrlFrame = "SYN_REPLY" THEN {}
    ELSE IF version = 2 THEN {"url"}
    ELSE {":scheme", ":host", ":path"}

\* responseWriter.WriteHeader with h the Content-Length entry of w.header.
responseWriterWriteHeader(w, h) ==
    IF w.writeHeaderCalled
    THEN w
    ELSE [w EXCEPT !.contentLen = IF h.present /\ ~Atoi(h).err THEN Atoi(h).l ELSE @,
                   !.headers = @ \cup {StatusHeader(Version), VersionHeader(Version)}
                                 \cup (IF h.present THEN {"content-length"} ELSE {}),
                   !.writeHeaderCalled = TRUE]

\* responseWriter.writeBufFrame(fin): the writer after the call and the error.
responseWriterWriteBufFrame(w, fin, by) ==
    LET bufLen == w.buf
        writtenLen == w.writtenLen + bufLen
        forceFin == w.contentLen # 0 /\ writtenLen = w.contentLen
    IN  IF w.contentLen # 0 /\ exceeds(writtenLen, w.contentLen)
        THEN [w |-> [w EXCEPT !.buf = 0,
                              !.bytes = <<>>,
                              !.frames = Append(@, SubmittedFrame("RST_STREAM", 0, FALSE,
                                                      STATUS_INTERNAL_ERROR, by))],
              err |-> TRUE]
        ELSE [w |-> [w EXCEPT !.frames = Append(@, SubmittedFrame("DATA", bufLen,
                                                      fin \/ forceFin, 0, by)),
                              !.payloads = Append(@, w.bytes),
                              !.writtenLen = writtenLen],
              err |-> FALSE]

\* The loop of responseWriter.Write with len(p) = rest left of lenP bytes.
RECURSIVE responseWriterWriteLoop(_, _, _)
responseWriterWriteLoop(w, lenP, rest) ==
    IF rest = 0
    THEN [w |-> w, n |-> lenP, err |-> FALSE]
    ELSE IF rest < avai(w)
    THEN [w |-> [w EXCEPT !.buf = @ + rest,
                          !.bytes = AppendBytes(@, slice(w, lenP, rest, rest))],
          n |-> lenP, err |-> FALSE]
    ELSE LET r == responseWriterWriteBufFrame(
                      [w EXCEPT !.buf = @ + avai(w),
                                !.bytes = AppendBytes(@, slice(w, lenP, rest, avai(w)))],
                      FALSE, "Write")
         IN  IF r.err
             THEN [w |-> r.w, n |-> lenP - rest, err |-> TRUE]
             ELSE responseWriterWriteLoop([r.w EXCEPT !.buf = 0, !.bytes = <<>>], lenP,
                                          rest - avai(w))

\* newResponseWriter for a SYN_REPLY (serveStream) or a SYN_STREAM (push).
newResponseWriterCall ==
    /\ rw.pc = "none"
    /\ \E ctrlFrame \in {"SYN_REPLY", "SYN_STREAM"} :
         rw' = [NoWriter EXCEPT !.pc = "open", !.ctrlFrame = ctrlFrame,
                                !.headers = NewCtrlFrameHeaders(Version, ctrlFrame)]
    /\ UNCHANGED <<serverVars, pq, codec, hb, se, hk, lk>>

\* The handler calls w.WriteHeader(statusCode).
responseWriterWriteHeaderCall ==
    /\ rw.pc = "open"
    /\ ~rw.writeHeaderCalled
    /\ \E h \in ContentLengthHeaders :
         rw' = [responseWriterWriteHeader(rw, h) EXCEPT
                   !.ret = [op |-> "WriteHeader", lenP |-> 0, n |-> 0, err |-> FALSE]]
    /\ UNCHANGED <<serverVars, pq, codec, hb, se, hk, lk>>

\* The handler calls w.Write(p).
responseWriterWriteCall ==
    /\ rw.pc = "open"
    /\ rw.nwrite < MaxWriteCalls
    /\ \E lenP \in WriteLens, h \in ContentLengthHeaders :
         LET w1 == responseWriterWriteHeader(rw, h)
             w2 == IF w1.ctrlFrameWritten
                   THEN w1
                   ELSE [w1 EXCEPT !.frames = Append(@, SubmittedFrame(w1.ctrlFrame, 0,
                                                           FALSE, 0, "Write")),
                                   !.ctrlSubmitted = Append(@, w1.headers),
                                   !.ctrlFrameWritten = TRUE]
             r  == responseWriterWriteLoop(w2, lenP, lenP)
         IN  rw' = [r.w EXCEPT !.total = @ + lenP,
                               !.nwrite = @ + 1,
                               !.ret = [op |-> "Write", lenP |-> lenP,
                                        n |-> r.n, err |-> r.err]]
    /\ UNCHANGED <<serverVars, pq, codec, hb, se, hk, lk>>

\* w.Close(), called when the handler has returned.
responseWriterCloseCall ==
    /\ rw.pc = "open"
    /\ LET w1 == IF ~rw.ctrlFrameWritten
                 THEN IF rw.ctrlFrame = "SYN_REPLY"
                      THEN [rw EXCEPT !.frames = Append(@, SubmittedFrame("SYN_REPLY", 0,
                                                              TRUE, 0, "Close")),
                                      !.ctrlSubmitted = Append(@, rw.headers),
                                      !.ctrlFrameWritten = TRUE]
                      ELSE rw
                 ELSE IF rw.contentLen = 0 \/ rw.buf > 0
                      THEN responseWriterWriteBufFrame(rw, TRUE, "Close").w
                      ELSE rw
       IN  rw' = [w1 EXCEPT !.pc = "closed",
                            !.ret = [op |-> "Close", lenP |-> 0, n |-> 0, err |-> FALSE]]
    /\ UNCHANGED <<serverVars, pq, codec, hb, se, hk, lk>>

NextWriter ==
    \/ newResponseWriterCall
    \/ responseWriterWriteHeaderCall
    \/ responseWriterWriteCall
    \/ responseWriterCloseCall

SpecWriter == Init /\ [][NextWriter]_vars

(***************************************************************************)
(* SpecBatch: one priorityQueue under heap.Push and heap.Pop.  The calls of *)
(* BlockingPriorityQueue run one at a time under the semaphore's mutex, so  *)
(* concurrent pushers amount to the pushes arriving in any order.           *)
(***************************************************************************)
\* The items of one type: the Items of the tests, streams, or frames.
BatchItems(kind) ==
    IF kind = "Item"
    THEN {[Priority |-> 3, Message |-> "Three"], [Priority |-> 6, Message |-> "Six"],
          [Priority |-> 1, Message |-> "One"], [Priority |-> 1, Message |-> "11"]}
    ELSE IF kind = "stream"
    THEN {[ID |-> 1, Priority |-> 0], [ID |-> 3, Priority |-> 0],
          [ID |-> 5, Priority |-> 7]}
    ELSE {[Priority |-> 0, Seq |-> 1], [Priority |-> 0, Seq |-> 2],
          [Priority |-> 255, Seq |-> 3]}

\* heap.Push(q, x)
batchPush ==
    /\ Len(pq.pushed) < MaxBatch
    /\ \E kind \in {"Item", "stream", "frame"} :
         /\ pq.kind \in {"none", kind}
         /\ \E x \in BatchItems(kind) :
              pq' = [kind |-> kind, q |-> heapPush(pq.q, x),
                     pushed |-> Append(pq.pushed, x), popped |-> <<>>]
    /\ UNCHANGED <<serverVars, rw, codec, hb, se, hk, lk>>

\* heap.Pop(q)
batchPop ==
    /\ pq.q # <<>>
    /\ pq' = [pq EXCEPT !.q = heapPop(pq.q).q,
                        !.popped = Append(@, heapPop(pq.q).item)]
    /\ UNCHANGED <<serverVars, rw, codec, hb, se, hk, lk>>

NextBatch == batchPush \/ batchPop

SpecBatch == Init /\ [][NextBatch]_vars

(***************************************************************************)
(* SpecBits: fields.Encoder.WriteBits and fields.Decoder.ReadBits on one    *)
(* buffer.  Words are bit sequences so that the shifts, masks and           *)
(* truncations of the code keep their widths.                               *)
(***************************************************************************)
Ones(k) == [i \in 1..k |-> 1]

\* v << k and v >> k on an unsigned value of Len(v) bits
Shl(v, k) == [i \in 1..Len(v) |-> IF i + k <= Len(v) THEN v[i + k] ELSE 0]
Shr(v, k) == [i \in 1..Len(v) |-> IF i - k >= 1 THEN v[i - k] ELSE 0]

\* a | b and a & b
BitOr(a, b) == [i \in 1..Len(a) |-> IF a[i] = 1 \/ b[i] = 1 THEN 1 ELSE 0]
BitAnd(a, b) == [i \in 1..Len(a) |-> IF a[i] = 1 /\ b[i] = 1 THEN 1 ELSE 0]

\* The conversions byte(x) and uint32(x)
byte(x) == SubSeq(x, Len(x) - 7, Len(x))
uint32(x) == Zeros(32 - Len(x)) \o x

\* binary.BigEndian.PutUint32 and binary.BigEndian.Uint32
PutUint32(n) == [i \in 1..4 |-> SubSeq(n, 8 * i - 7, 8 * i)]
Uint32(buf) == buf[1] \o buf[2] \o buf[3] \o buf[4]

\* The pending byte as the code computes it.
pendingByte(n, pending) == byte(Shr(Shl(n, 32 - pending), 24 - pending))

\* Encoder.WriteBits(count, n): the encoder after the call and the bytes written.
WriteBits(e, count, n) ==
    LET bitsToWrite == count + e.pending
    IN  IF bitsToWrite < 8
        THEN [e |-> [b |-> BitOr(e.b, Shl(byte(n), 8 - bitsToWrite)),
                     pending |-> bitsToWrite],
              out |-> <<>>]
        ELSE LET bytesToWrite == bitsToWrite \div 8
                 pending == bitsToWrite % 8
                 b  == pendingByte(n, pending)
                 n1 == BitOr(Shr(n, pending),
                             Shl(uint32(e.b), count - pending - 8 + e.pending))
                 n2 == Shl(n1, 32 - bytesToWrite * 8)
             IN  [e |-> [b |-> b, pending |-> pending],
                  out |-> SubSeq(PutUint32(n2), 1,
                                 IF bytesToWrite > 4 THEN 4 ELSE bytesToWrite)]

\* Decoder.ReadBits(count) on the bytes in: the decoder after the call, n, err
\* and the bytes left.
ReadBits(d, count, in) ==
    LET bitsNeeded == count - d.leftOver
        kept == BitAnd(d.b, Shr(Ones(8), 8 - d.leftOver))
    IN  IF bitsNeeded <= 0
        THEN [d |-> [d EXCEPT !.leftOver = -bitsNeeded],
              n |-> uint32(Shr(kept, -bitsNeeded)), err |-> FALSE, in |-> in]
        ELSE LET bytesNeeded == (bitsNeeded \div 8) + (IF bitsNeeded % 8 # 0 THEN 1 ELSE 0)
             IN  IF Len(in) < bytesNeeded
                 THEN [d |-> [d EXCEPT !.readBuf =
                                 [i \in 1..4 |-> IF i > 4 - bytesNeeded /\ i - (4 - bytesNeeded) <= Len(in)
                                                 THEN in[i - (4 - bytesNeeded)] ELSE @[i]]],
                       n |-> Zeros(32), err |-> TRUE, in |-> <<>>]
                 ELSE LET readBuf == [i \in 1..4 |-> IF i > 4 - bytesNeeded
                                                     THEN in[i - (4 - bytesNeeded)]
                                                     ELSE d.readBuf[i]]
                          n0 == BitAnd(Uint32(readBuf), Shr(Ones(32), (4 - bytesNeeded) * 8))
                          leftOver == bytesNeeded * 8 - bitsNeeded
                          n1 == IF leftOver > 0 THEN Shr(n0, leftOver) ELSE n0
                          leftOverPatch == Shl(uint32(kept), count - d.leftOver)
                      IN  [d |-> [b |-> IF leftOver > 0 THEN readBuf[4] ELSE d.b,
                                  leftOver |-> leftOver, readBuf |-> readBuf],
                           n |-> BitOr(n1, leftOverPatch), err |-> FALSE,
                           in |-> SubSeq(in, bytesNeeded + 1, Len(in))]

\* The bit counts of the fields written.
FieldWidths == {1, 3, 7, 8, 9, 13, 31, 32}

\* The values u < 2^count written in a field of count bits.
FieldValues(count) ==
    {Zeros(count), Ones(count),
     [i \in 1..count |-> i % 2], [i \in 1..count |-> (i + 1) % 2]}

\* encoder.WriteBits(count, u), before any field is read back.
encoderWriteBits ==
    /\ codec.got = <<>>
    /\ Len(codec.fields) < MaxFields
    /\ \E count \in FieldWidths : \E u \in FieldValues(count) :
         LET r == WriteBits(codec.e, count, uint32(u))
         IN  codec' = [codec EXCEPT !.e = r.e,
                                    !.buffer = @ \o r.out,
                                    !.fields = Append(@, [count |-> count, u |-> u])]
    /\ UNCHANGED <<serverVars, rw, pq, hb, se, hk, lk>>

\* decoder.ReadBits(count) for the next field written, once the fields written
\* fill whole bytes.
decoderReadBits ==
    /\ codec.e.pending = 0
    /\ Len(codec.got) < Len(codec.fields)
    /\ LET r == ReadBits(codec.d, codec.fields[Len(codec.got) + 1].count, codec.buffer)
       IN  codec' = [codec EXCEPT !.d = r.d,
                                  !.buffer = r.in,
                                  !.got = Append(@, [n |-> r.n, err |-> r.err])]
    /\ UNCHANGED <<serverVars, rw, pq, hb, se, hk, lk>>

NextBits == encoderWriteBits \/ decoderReadBits

SpecBits == Init /\ [][NextBits]_vars

(***************************************************************************)
(* SpecStreamID: a DataFrame is given a stream id, flags and a length, its  *)
(* header is written with framing.WriteFrame and read back with             *)
(* framing.ReadFrame.                                                       *)
(***************************************************************************)
\* const MAX_STREAM_ID uint32 = 0x8FFFFFFF
MAX_STREAM_ID == [i \in 1..32 |-> IF i \in 2..4 THEN 0 ELSE 1]

\* a > b on unsigned values of the same width
Greater(a, b) ==
    \E i \in 1..Len(a) :
       /\ a[i] > b[i]
       /\ \A j \in 1..(i - 1) : a[j] = b[j]

\* The test of DataFrame.SetStreamID (and of the frame constructors): the id
\* is accepted.
SetStreamIDOK(id) == ~(id = Zeros(32) \/ Greater(id, MAX_STREAM_ID))

\* The uint32 values 0x00000000 .. 0xFFFFFFFF tried as stream ids: 0, 1, 2,
\* 0x55555555, 0x7FFFFFFF, 0x80000000, 0x80000001, 0x8FFFFFFF, 0x90000000
\* and 0xFFFFFFFF.
StreamIDs ==
    {Zeros(32), Zeros(31) \o <<1>>, Zeros(30) \o <<1, 0>>,
     [i \in 1..32 |-> (i + 1) % 2],
     <<0>> \o Ones(31), <<1>> \o Zeros(31), <<1>> \o Zeros(30) \o <<1>>,
     MAX_STREAM_ID, <<1, 0, 0, 1>> \o Zeros(28), Ones(32)}

\* f := new(DataFrame); f.SetStreamID(id); f.SetFlags(flags); f.SetLen(length)
dataFrameSetStreamID ==
    /\ codec.frame.pc = "none"
    /\ codec.fields = <<>>
    /\ \E id \in StreamIDs, flags \in {Zeros(8), Zeros(7) \o <<1>>},
          length \in {Zeros(24), Zeros(23) \o <<1>>, Ones(24)} :
         codec' = [codec EXCEPT !.frame =
                      IF SetStreamIDOK(id)
                      THEN [pc |-> "set", streamID |-> id, flags |-> flags,
                            length |-> uint32(length)]
                      ELSE [pc |-> "ErrInvalidStreamID", streamID |-> Zeros(32),
                            flags |-> flags, length |-> uint32(length)]]
    /\ UNCHANGED <<serverVars, rw, pq, hb, se, hk, lk>>

\* framing.writeDataFrame up to the payload: the four header fields.
writeDataFrame ==
    /\ codec.frame.pc = "set"
    /\ LET f  == codec.frame
           r1 == WriteBits(codec.e, 1, Zeros(32))
           r2 == WriteBits(r1.e, 31, f.streamID)
           r3 == WriteBits(r2.e, 8, uint32(f.flags))
           r4 == WriteBits(r3.e, 24, f.length)
       IN  codec' = [codec EXCEPT !.e = r4.e,
                                  !.buffer = @ \o r1.out \o r2.out \o r3.out \o r4.out,
                                  !.frame.pc = "written"]
    /\ UNCHANGED <<serverVars, rw, pq, hb, se, hk, lk>>

\* framing.ReadFrame on the bytes written: the control bit, and for a data
\* frame the fields framing.readDataFrame reads.
readFrame ==
    /\ codec.frame.pc = "written"
    /\ LET r0 == ReadBits(codec.d, 1, codec.buffer)
           r1 == ReadBits(r0.d, 31, r0.in)
           r2 == ReadBits(r1.d, 8, r1.in)
           r3 == ReadBits(r2.d, 24, r2.in)
       IN  IF r0.err \/ r0.n # Zeros(32)
           THEN codec' = [codec EXCEPT !.d = r0.d, !.buffer = r0.in,
                                       !.frame.pc = "read",
                                       !.got = <<[cbit |-> r0.n, isData |-> FALSE]>>]
           ELSE codec' = [codec EXCEPT !.d = r3.d, !.buffer = r3.in,
                                       !.frame.pc = "read",
                                       !.got = <<[cbit |-> r0.n, isData |-> TRUE,
                                                  streamID |-> r1.n, flags |-> byte(r2.n),
                                                  length |-> r3.n,
                                                  err |-> r1.err \/ r2.err \/ r3.err]>>]
    /\ UNCHANGED <<serverVars, rw, pq, hb, se, hk, lk>>

NextStreamID ==
    \/ dataFrameSetStreamID
    \/ writeDataFrame
    \/ readFrame

SpecStreamID == Init /\ [][NextStreamID]_vars

(***************************************************************************)
(* SpecHeaders: one headerBlockV2 under Add.  A string is the sequence of   *)
(* its bytes, so that names compare and fold as they do in the code.        *)
(***************************************************************************)
\* The separator "\x00"
NUL == 0

\* strings.ToLower on ASCII bytes
ToLower(str) == [i \in 1..Len(str) |-> IF str[i] \in 65..90 THEN str[i] + 32 ELSE str[i]]

\* a >= b on strings: byte-wise, a proper prefix being smaller
RECURSIVE StringGE(_, _)
StringGE(a, b) ==
    IF b = <<>> THEN TRUE
    ELSE IF a = <<>> THEN FALSE
    ELSE IF Head(a) # Head(b) THEN Head(a) > Head(b)
    ELSE StringGE(Tail(a), Tail(b))

\* strings.Join(value, sep)
RECURSIVE Join(_, _)
Join(values, sep) ==
    IF values = <<>> THEN <<>>
    ELSE IF Len(values) = 1 THEN values[1]
    ELSE values[1] \o sep \o Join(Tail(values), sep)

\* sort.Search(l, func(i) { return h[i].Name >= name }) between i and j
RECURSIVE sortSearch(_, _, _, _)
sortSearch(h, name, i, j) ==
    IF i >= j THEN i
    ELSE LET m == (i + j) \div 2
         IN  IF ~StringGE(h[m + 1].Name, name)
             THEN sortSearch(h, name, m + 1, j)
             ELSE sortSearch(h, name, i, m)

\* headerBlockV2.search: the index, and whether the name is at that index
search(h, name) ==
    LET i == sortSearch(h, name, 0, Len(h))
    IN  [i |-> i, found |-> i < Len(h) /\ h[i + 1].Name = name]

\* headerBlockV2.insert
insert(h, i, p) == SubSeq(h, 1, i) \o <<p>> \o SubSeq(h, i + 1, Len(h))

\* headerBlockV2.Add(name, value...)
Add(h, name, values) ==
    IF Len(name) = 0
    THEN h
    ELSE LET lname == ToLower(name)
             v == Join(values, <<NUL>>)
             r == search(h, lname)
         IN  IF r.found
             THEN [h EXCEPT ![r.i + 1].Value = @ \o <<NUL>> \o v]
             ELSE insert(h, r.i, [Name |-> lname, Value |-> v])

\* strings.IndexRune(str, c) counted from 1; 0 when c is not in str
IndexRune(str, c) ==
    IF \E i \in 1..Len(str) : str[i] = c
    THEN CHOOSE i \in 1..Len(str) : str[i] = c /\ \A j \in 1..(i - 1) : str[j] # c
    ELSE 0

\* headerBlockV2.GetFirst(name)
GetFirst(h, name) ==
    LET r == search(h, ToLower(name))
    IN  IF r.found
        THEN LET Value == h[r.i + 1].Value
             IN  IF IndexRune(Value, NUL) # 0
                 THEN SubSeq(Value, 1, IndexRune(Value, NUL) - 1)
                 ELSE Value
        ELSE <<>>

\* headerBlockV2.Names()
Names(h) == [i \in 1..Len(h) |-> h[i].Name]

\* The names given to Add: "", "c1", "d1", "D1", "d", "k1"
AddNames == {<<>>, <<99, 49>>, <<100, 49>>, <<68, 49>>, <<100>>, <<107, 49>>}

\* The values given to one Add call: none, one or two of "", "v", "w"
AddValues ==
    {<<>>} \cup {<<a>> : a \in {<<>>, <<118>>, <<119>>}}
           \cup {<<a, b>> : a \in {<<118>>}, b \in {<<>>, <<119>>}}

\* b.Add(name, value...)
headerBlockAdd ==
    /\ Len(hb.calls) < MaxAdds
    /\ \E name \in AddNames, values \in AddValues :
         hb' = [h |-> Add(hb.h, name, values),
                calls |-> Append(hb.calls, [name |-> name, values |-> values])]
    /\ UNCHANGED <<serverVars, rw, pq, codec, se, hk, lk>>

NextHeaders == headerBlockAdd

SpecHeaders == Init /\ [][NextHeaders]_vars

(***************************************************************************)
(* SpecSettings: one settingEntriesV2 under Set and Get.  The two id        *)
(* conversions work on the four bytes of the id, as the code does.          *)
(***************************************************************************)
\* binary.LittleEndian.PutUint32 / Uint32 and binary.BigEndian.PutUint32 /
\* Uint32 on four bytes, bytes[1] being the first byte
LittleEndianPutUint32(n) == [i \in 1..4 |-> (n \div (256 ^ (i - 1))) % 256]
LittleEndianUint32(bytes) ==
    bytes[1] + 256 * bytes[2] + 65536 * bytes[3] + 16777216 * bytes[4]
BigEndianPutUint32(n) == [i \in 1..4 |-> (n \div (256 ^ (4 - i))) % 256]
BigEndianUint32(bytes) ==
    16777216 * bytes[1] + 65536 * bytes[2] + 256 * bytes[3] + bytes[4]

toV2SettingIDUnchanged(n) == n

\* toV2BuggySettingID: copy(bytes[1:], bytes[:3]); bytes[0] = 0
toV2BuggySettingID(n) ==
    LET bytes == LittleEndianPutUint32(n)
    IN  BigEndianUint32(<<0, bytes[1], bytes[2], bytes[3]>>)

\* fromV2BuggySettingID: copy(bytes[:3], bytes[1:]); bytes[3] = 0
fromV2BuggySettingID(n) ==
    LET bytes == BigEndianPutUint32(n)
    IN  LittleEndianUint32(<<bytes[2], bytes[3], bytes[4], 0>>)

\* sort.Search(l, func(i) { return from((*s)[i].ID) >= from(ID) }) between i and j
RECURSIVE settingSortSearch(_, _, _, _)
settingSortSearch(s, ID, i, j) ==
    IF i >= j THEN i
    ELSE LET m == (i + j) \div 2
         IN  IF ~(fromV2BuggySettingID(s[m + 1].ID) >= fromV2BuggySettingID(ID))
             THEN settingSortSearch(s, ID, m + 1, j)
             ELSE settingSortSearch(s, ID, i, m)

\* settingEntriesV2.search: the index, and whether the id is at that index
settingSearch(s, ID) ==
    LET i == settingSortSearch(s, ID, 0, Len(s))
    IN  [i |-> i, found |-> i < Len(s) /\ s[i + 1].ID = ID]

\* Whether Set accepts the flags.
settingFlagsValid(flags) ==
    flags \in {FLAG_NONE, FLAG_SETTINGS_PERSIST_VALUE, FLAG_SETTINGS_PERSISTED}

\* settingEntriesV2.Set(ID, flags, value): the entries after the call
Set(s, ID, flags, v) ==
    IF ID < 1 \/ ID > 7
    THEN s
    ELSE IF ~settingFlagsValid(flags)
    THEN s
    ELSE LET r == settingSearch(s, toV2BuggySettingID(ID))
         IN  IF r.found
             THEN [s EXCEPT ![r.i + 1].Flags = flags, ![r.i + 1].Value = v]
             ELSE insert(s, r.i, [ID |-> toV2BuggySettingID(ID), Flags |-> flags,
                                  Value |-> v])

\* settingEntriesV2.Get(ID)
Get(s, ID) ==
    LET r == settingSearch(s, toV2BuggySettingID(ID))
    IN  IF r.found
        THEN [flags |-> s[r.i + 1].Flags, value |-> s[r.i + 1].Value, exists |-> TRUE]
        ELSE [flags |-> 0, value |-> 0, exists |-> FALSE]

\* s.Set(ID, flags, value) with an id of 1..7 (the ends and the middle), flags
\* that are valid or not (3 is no flag of a setting), and a value.
settingEntriesSet ==
    /\ Len(se.calls) < MaxSets
    /\ \E ID \in {1, 4, 7}, flags \in {FLAG_NONE, FLAG_SETTINGS_PERSIST_VALUE, 3}, v \in {0, 1} :
         se' = [s |-> Set(se.s, ID, flags, v),
                calls |-> Append(se.calls, [ID |-> ID, flags |-> flags, value |-> v])]
    /\ UNCHANGED <<serverVars, rw, pq, codec, hb, hk, lk>>

NextSettings == settingEntriesSet

SpecSettings == Init /\ [][NextSettings]_vars

(***************************************************************************)
(* SpecHook: one statushook responseWriter, the handler that writes to it   *)
(* and the hook its WriteHeader invokes.  The hook is a callback: it runs   *)
(* between the two halves of the outer WriteHeader.                         *)
(***************************************************************************)
\* A call on the wrapped writer; from tells who made the wrapper make it.
UnderlyingCall(op, arg, from) == [op |-> op, arg |-> arg, from |-> from]

statushookWritePassThrough(w, len, from) ==
    [w EXCEPT !.under = Append(@, UnderlyingCall("Write", len, from)),
              !.last = [op |-> "Write", from |-> from, len |-> len, n |-> len]]

\* responseWriter.Write(data) with len(data) = len
statushookWrite(w, len, from) ==
    IF w.inHook
    THEN [w EXCEPT !.hooked = TRUE,
                   !.under = Append(@, UnderlyingCall("Write", len, from)),
                   !.last = [op |-> "Write", from |-> from, len |-> len, n |-> len]]
    ELSE IF w.hooked
    THEN [w EXCEPT !.last = [op |-> "Write", from |-> from, len |-> len, n |-> len]]
    ELSE [w EXCEPT !.under = Append(@, UnderlyingCall("Write", len, from)),
                   !.last = [op |-> "Write", from |-> from, len |-> len, n |-> len]]

\* responseWriter.WriteHeader(code) up to the return or to the call of the hook
statushookWriteHeader(w, code, from) ==
    LET w1 == [w EXCEPT !.last = [op |-> "WriteHeader", from |-> from, len |-> 0, n |-> 0]]
    IN  IF w.wroteHeader
        THEN w1
        ELSE IF w.inHook
        THEN [w1 EXCEPT !.wroteHeader = TRUE,
                        !.hooked = TRUE,
                        !.under = Append(@, UnderlyingCall("WriteHeader", code, from))]
        ELSE IF w.hooked
        THEN w1
        ELSE [w1 EXCEPT !.inHook = TRUE, !.code = code, !.pc = "hook",
                        !.hookRuns = @ + 1]

\* responseWriter.WriteHeader(code) from the return of the hook on
statushookWriteHeaderResume(w) ==
    LET w1 == [w EXCEPT !.inHook = FALSE, !.pc = "out"]
    IN  IF ~w1.hooked
        THEN [w1 EXCEPT !.wroteHeader = TRUE,
                        !.under = Append(@, UnderlyingCall("WriteHeader", w.code, "forward"))]
        ELSE w1

\* Handler: the wrapper is created and handler.ServeHTTP(hookedWriter, r) starts.
statushookHandler ==
    /\ hk.pc = "none"
    /\ hk' = [NoHook EXCEPT !.pc = "out"]
    /\ UNCHANGED <<serverVars, rw, pq, codec, hb, se, lk>>

\* The handler calls w.Write(data).
handlerWrite ==
    /\ hk.pc = "out"
    /\ hk.ncalls < MaxHookCalls
    /\ \E len \in {0, 3} :
         hk' = [statushookWrite(hk, len, "outer") EXCEPT !.ncalls = @ + 1]
    /\ UNCHANGED <<serverVars, rw, pq, codec, hb, se, lk>>

\* The handler calls w.WriteHeader(code).
handlerWriteHeader ==
    /\ hk.pc = "out"
    /\ hk.ncalls < MaxHookCalls
    /\ \E code \in {200, 404} :
         hk' = [statushookWriteHeader(hk, code, "outer") EXCEPT !.ncalls = @ + 1]
    /\ UNCHANGED <<serverVars, rw, pq, codec, hb, se, lk>>

\* The hook calls w.Write(data).
hookWrite ==
    /\ hk.pc = "hook"
    /\ hk.ncalls < MaxHookCalls
    /\ \E len \in {0, 3} :
         hk' = [statushookWrite(hk, len, "hook") EXCEPT !.ncalls = @ + 1,
                                                        !.hookCalled = TRUE]
    /\ UNCHANGED <<serverVars, rw, pq, codec, hb, se, lk>>

\* The hook calls w.WriteHeader(code).
hookWriteHeader ==
    /\ hk.pc = "hook"
    /\ hk.ncalls < MaxHookCalls
    /\ \E code \in {404, 400} :
         hk' = [statushookWriteHeader(hk, code, "hook") EXCEPT !.ncalls = @ + 1,
                                                               !.hookCalled = TRUE]
    /\ UNCHANGED <<serverVars, rw, pq, codec, hb, se, lk>>

\* The hook returns and the outer WriteHeader goes on.
hookReturn ==
    /\ hk.pc = "hook"
    /\ hk' = statushookWriteHeaderResume(hk)
    /\ UNCHANGED <<serverVars, rw, pq, codec, hb, se, lk>>

NextHook ==
    \/ statushookHandler
    \/ handlerWrite
    \/ handlerWriteHeader
    \/ hookWrite
    \/ hookWriteHeader
    \/ hookReturn

SpecHook == Init /\ [][NextHook]_vars

(***************************************************************************)
(* SpecLocks: goroutines calling the functions that take stream.mtxClosed  *)
(* and conn.mtxLiveStreams, one lock operation per step.  A goroutine at a *)
(* label is about to execute it; at a Lock or RLock label it may be        *)
(* blocked inside the call.                                                *)
(***************************************************************************)
\* The functions called: the setters and getters of the half-close flags, the
\* registry functions, and conn.writeFrame for a frame of a stream object.
LockFns == {"PeerHalfClose", "HalfClose", "PeerHalfClosed", "HalfClosed",
            "getStream", "addStream", "closeStream", "writeFrame"}

Setters == {"PeerHalfClose", "HalfClose"}

\* The first lock operation of a function.
FirstLabel(fn) ==
    CASE fn \in Setters -> "Lock"
      [] fn \in {"PeerHalfClosed", "HalfClosed"} -> "RLock"
      [] fn \in {"getStream", "writeFrame"} -> "getStream.RLock"
      [] fn = "addStream" -> "addStream.Lock"
      [] fn = "closeStream" -> "deleteStream.Lock"

NextLabelNested(fn, pc, cond) ==
    CASE pc = "Lock" -> IF cond THEN "deleteStream.Lock" ELSE "Unlock"
      [] pc = "deleteStream.Lock" -> "deleteStream.Unlock"
      [] pc = "deleteStream.Unlock" -> IF fn \in Setters THEN "Unlock" ELSE "idle"
      [] pc = "Unlock" -> "idle"
      [] pc = "RLock" -> "RUnlock"
      [] pc = "RUnlock" -> IF fn = "writeFrame" THEN "getStream.RUnlock" ELSE "idle"
      [] pc = "getStream.RLock" -> IF fn = "writeFrame" THEN "RLock" ELSE "getStream.RUnlock"
      [] pc = "getStream.RUnlock" -> "idle"
      [] pc = "addStream.Lock" -> "addStream.Unlock"
      [] pc = "addStream.Unlock" -> "idle"

\* The lock operation that follows pc in fn; cond is the outcome of the test
\* made at pc: in a setter, that the flag was down and the other flag is up
\* (deleteStream is called); in writeFrame, that getStream returned a stream
\* (stream.HalfClosed is called).
NextLabel(fn, pc, cond) ==
    CASE pc = "Lock" -> IF cond THEN "deleteStream.Lock" ELSE "Unlock"
      [] pc = "deleteStream.Lock" -> "deleteStream.Unlock"
      [] pc = "deleteStream.Unlock" -> IF fn \in Setters THEN "Unlock" ELSE "idle"
      [] pc = "Unlock" -> "idle"
      [] pc = "RLock" -> "RUnlock"
      [] pc = "RUnlock" -> "idle"
      [] pc = "getStream.RLock" -> "getStream.RUnlock"
      [] pc = "getStream.RUnlock" -> IF fn = "writeFrame" /\ cond THEN "RLock" ELSE "idle"
      [] pc = "addStream.Lock" -> "addStream.Unlock"
      [] pc = "addStream.Unlock" -> "idle"

\* The mutex the lock operation at the label of goroutine g works on.
MutexAt(k, g) ==
    IF k.pc[g] \in {"Lock", "Unlock", "RLock", "RUnlock"} THEN k.s[g] ELSE mtxLiveStreams

\* sync.RWMutex.Lock returns when no writer and no reader holds the mutex.
CanLock(k, m) == k.w[m] = 0 /\ k.r[m] = {}

\* sync.RWMutex.RLock returns when no writer holds the mutex and none is
\* waiting in Lock.
CanRLock(k, m) ==
    /\ k.w[m] = 0
    /\ \A g \in Lockers :
          ~(k.pc[g] \in {"Lock", "deleteStream.Lock", "addStream.Lock"} /\ MutexAt(k, g) = m)

\* Goroutine g can execute the lock operation at its label.
CanStep(k, g) ==
    CASE k.pc[g] = "idle" -> FALSE
      [] k.pc[g] \in {"Lock", "deleteStream.Lock", "addStream.Lock"} -> CanLock(k, MutexAt(k, g))
      [] k.pc[g] \in {"RLock", "getStream.RLock"} -> CanRLock(k, MutexAt(k, g))
      [] OTHER -> TRUE

\* A goroutine calls one of the functions on stream object s.
lockCall(g) ==
    /\ lk.pc[g] = "idle"
    /\ lk.ncalls < MaxLockCalls
    /\ \E fn \in LockFns, s \in LockStreams :
         lk' = [lk EXCEPT !.pc[g] = FirstLabel(fn), !.fn[g] = fn, !.s[g] = s,
                          !.ncalls = @ + 1]
    /\ UNCHANGED <<serverVars, rw, pq, codec, hb, se, hk>>

\* Goroutine g executes the lock operation at its label and the code up to
\* the next one.
lockStep(g) ==
    /\ CanStep(lk, g)
    /\ LET pc == lk.pc[g]
           fn == lk.fn[g]
           s  == lk.s[g]
           m  == MutexAt(lk, g)
           mine  == IF fn = "HalfClose" THEN lk.halfClosed[s] ELSE lk.peerHalfClosed[s]
           other == IF fn = "HalfClose" THEN lk.peerHalfClosed[s] ELSE lk.halfClosed[s]
           cond == CASE pc = "Lock" -> ~mine /\ other
                     [] pc = "getStream.RUnlock" -> lk.live[s]
                     [] OTHER -> FALSE
           k1 == CASE pc \in {"Lock", "deleteStream.Lock", "addStream.Lock"} ->
                        [lk EXCEPT !.w[m] = g]
                   [] pc \in {"Unlock", "deleteStream.Unlock", "addStream.Unlock"} ->
                        [lk EXCEPT !.w[m] = 0]
                   [] pc \in {"RLock", "getStream.RLock"} ->
                        [lk EXCEPT !.r[m] = @ \cup {g}]
                   [] OTHER ->
                        [lk EXCEPT !.r[m] = @ \ {g}]
           k2 == CASE pc = "Lock" /\ fn = "HalfClose" ->
                        [k1 EXCEPT !.halfClosed[s] = TRUE]
                   [] pc = "Lock" /\ fn = "PeerHalfClose" ->
                        [k1 EXCEPT !.peerHalfClosed[s] = TRUE]
                   [] pc = "deleteStream.Unlock" -> [k1 EXCEPT !.live[s] = FALSE]
                   [] pc = "addStream.Unlock" -> [k1 EXCEPT !.live[s] = TRUE]
                   [] OTHER -> k1
           nxt == NextLabel(fn, pc, cond)
       IN  lk' = IF nxt = "idle"
                 THEN [k2 EXCEPT !.pc[g] = "idle", !.fn[g] = "none", !.s[g] = 1]
                 ELSE [k2 EXCEPT !.pc[g] = nxt]
    /\ UNCHANGED <<serverVars, rw, pq, codec, hb, se, hk>>

NextLocks ==
    \/ \E g \in Lockers : lockCall(g)
    \/ \E g \in Lockers : lockStep(g)

SpecLocks == Init /\ [][NextLocks]_vars

(***************************************************************************)
(* Properties.                                                             *)
(***************************************************************************)
\* The items of a heap array.
Items(h) == {h[i] : i \in 1..Len(h)}

\* The step is a Pop of the frame egress queue by writeLoop.
FramePopped == Len(framesToWrite') < Len(framesToWrite)

\* The step is a Pop of the stream dispatch queue by serveLoop.
StreamPopped == Len(streamQ') < Len(streamQ)

\* The step is readLoop decoding a SYN_STREAM.
SynStreamRead == nread' = nread + 1 /\ rframe'.type = "SYN_STREAM"

\* The step is readLoop decoding a DATA frame whose stream is absent from the
\* registry or peer-half-closed.
DataReadForClosedStream ==
    /\ nread' = nread + 1
    /\ rframe'.type = "DATA"
    /\ \/ getStream(rframe'.sid) = 0
       \/ streams[getStream(rframe'.sid)].peerHalfClosed

\* The frame item writeFrame puts on the egress queue in this step.
Enqueued(f) ==
    /\ frameWriteSeq' = frameWriteSeq + 1
    /\ Items(framesToWrite') =
         Items(framesToWrite) \cup
           {[Priority |-> maxFramePriority, Seq |-> frameWriteSeq', Frame |-> f]}

\* C1: once readLoop has left its loop (EOF, network error, GOAWAY or protocol
\* violation), under fair scheduling writeLoop and serveLoop terminate and
\* conn.Serve has received its three exit announcements.  A connection whose
\* writer died of a write error that is no network error is left aside.
C1_ReaderExitEndsServe ==
    (rpc = "tail") ~> \/ (wpc = "done" /\ spc = "done" /\ exits = 3)
                      \/ wpc = "failed"

\* C2: of two frames of equal priority that are both queued when writeLoop
\* pops, the one with the smaller sequence number is popped first.
C2_EqualPriorityFIFO ==
    [][FramePopped =>
         LET p == heapPop(framesToWrite).item
         IN  p.Frame # NilFrame =>
               \A x \in Items(framesToWrite) :
                 (x.Frame # NilFrame /\ x.Priority = p.Priority) => p.Seq <= x.Seq]_vars

\* C3: when the egress queue holds an administrative frame at priority 0xFF
\* and a frame at a stream priority, writeLoop's next pop returns the 0xFF frame.
C3_AdminFramesFirst ==
    [][(/\ FramePopped
        /\ \E x \in Items(framesToWrite) :
             x.Priority = maxFramePriority
             /\ x.Frame.type \in {"GOAWAY", "PING", "RST_STREAM"}
        /\ \E y \in Items(framesToWrite) :
             y.Frame # NilFrame /\ y.Priority <= MAX_PRIORITY_V3)
       => heapPop(framesToWrite).item.Priority = maxFramePriority]_vars

\* C4: the frames of one response reach the connection in the order the
\* response writer submitted them: when writeLoop pops a DATA frame, neither the
\* SYN_REPLY of that response nor an earlier DATA frame of it is still queued.
C4_ResponseFramesInOrder ==
    [][FramePopped =>
         LET p == heapPop(framesToWrite).item.Frame
         IN  (p.type = "DATA" /\ p.obj # 0) =>
               \A x \in Items(framesToWrite') :
                 x.Frame.obj = p.obj =>
                   /\ x.Frame.type # "SYN_REPLY"
                   /\ x.Frame.type = "DATA" => x.Frame.n > p.n]_vars

\* C5: Pop of the stream dispatch queue returns the stream with the lowest
\* priority value, and among streams of equal priority the smallest stream id.
C5_StreamPopOrder ==
    [][StreamPopped =>
         LET p == heapPop(streamQ).item
         IN  \A x \in Items(streamQ) :
               /\ p.Priority <= x.Priority
               /\ p.Priority = x.Priority => p.ID <= x.ID]_vars

\* C6: a BlockingPriorityQueue of capacity N holds between 0 and N items; a
\* Push is past IncLock, about to add its item, only while fewer than N items
\* are held, and a Pop is past DecLock only while an item is held; between
\* calls the semaphore counts the items.
C6_QueueBlocksAtBounds ==
    /\ Len(q) >= 0 /\ Len(q) <= maxValue
    /\ \A g \in 1..MaxCallers :
         /\ gpc[g] = "heap.Push" => (l = g /\ Len(q) < maxValue /\ value = Len(q) + 1)
         /\ gpc[g] = "heap.Pop" => (l = g /\ Len(q) > 0 /\ value = Len(q) - 1)
    /\ l = 0 => value = Len(q)

\* C6 witness: a Push is waiting on notFull at a queue that holds N items.
C6_PushWaitsAtFullQueue ==
    /\ Len(q) = maxValue
    /\ \E g \in 1..MaxCallers : gpc[g] = "notFull.Wait"

\* C7: a SYN_STREAM whose id is zero, even, or not above the highest id accepted
\* before adds no stream to the registry and pushes none on the dispatch queue.
C7_StaleSynStreamAddsNothing ==
    [][(/\ SynStreamRead
        /\ \/ rframe'.sid = 0
           \/ rframe'.sid % 2 = 0
           \/ rframe'.sid <= lastGoodStreamID)
       => (liveStreams' = liveStreams /\ streamQ' = streamQ)]_vars

\* C8: when readLoop rejects a SYN_STREAM (id zero, even, or below the last
\* accepted id), RST_STREAM(PROTOCOL_ERROR) for that id is put on the egress queue.
C8_RejectedSynStreamIsReset ==
    [][(/\ SynStreamRead
        /\ \/ rframe'.sid = 0
           \/ rframe'.sid % 2 = 0
           \/ rframe'.sid < lastGoodStreamID)
       => Enqueued(Frame("RST_STREAM", rframe'.sid, STATUS_PROTOCOL_ERROR, FALSE, 0))]_vars

\* C9, as amended: a SYN_STREAM whose id is in the live registry leaves every
\* stream and the registry unchanged and pushes no stream; if the registered
\* stream is half-closed nothing is enqueued, otherwise exactly one RST_STREAM
\* for the id is enqueued at priority 0xFF, with status PROTOCOL_ERROR when the
\* id is below the last accepted id (either version) and, when it equals it,
\* PROTOCOL_ERROR under v2 and STREAM_IN_USE under v3.
C9_SynStreamOnLiveID ==
    [][(SynStreamRead /\ getStream(rframe'.sid) # 0) =>
         LET sid == rframe'.sid
             status == IF sid < lastGoodStreamID \/ Version = 2
                       THEN STATUS_PROTOCOL_ERROR ELSE STATUS_STREAM_IN_USE
         IN  /\ streams' = streams
             /\ liveStreams' = liveStreams
             /\ streamQ' = streamQ
             /\ ~panicked'
             /\ IF streams[getStream(sid)].halfClosed
                THEN framesToWrite' = framesToWrite
                ELSE Enqueued(Frame("RST_STREAM", sid, status, FALSE, 0))]_vars

\* C9 witness: under v3 the reader has just answered a SYN_STREAM for a live id
\* with RST_STREAM(STREAM_IN_USE).
C9_StreamInUseSent ==
    /\ Version = 3
    /\ rframe.type = "SYN_STREAM"
    /\ getStream(rframe.sid) # 0
    /\ \E x \in Items(framesToWrite) :
         /\ x.Seq = frameWriteSeq
         /\ x.Frame = Frame("RST_STREAM", rframe.sid, STATUS_STREAM_IN_USE, FALSE, 0)

\* C9 as stated: a SYN_STREAM whose id is in the live registry changes neither
\* the registry nor the registered stream, pushes no stream, and an RST_STREAM
\* is enqueued with PROTOCOL_ERROR under v2 and STREAM_IN_USE under v3.
C9_AsStated ==
    [][(SynStreamRead /\ getStream(rframe'.sid) # 0) =>
         /\ streams' = streams
         /\ liveStreams' = liveStreams
         /\ streamQ' = streamQ
         /\ Enqueued(Frame("RST_STREAM", rframe'.sid,
                           IF Version = 2
                           THEN STATUS_PROTOCOL_ERROR ELSE STATUS_STREAM_IN_USE,
                           FALSE, 0))]_vars

\* C10: peerHalfClosed and halfClosed never go from true to false, and a call
\* of PeerHalfClose or HalfClose on a stream whose flag is already true changes
\* neither any stream nor the registry.
C10_HalfCloseMonotonic ==
    [][/\ \A k \in 1..Len(streams) :
            /\ streams[k].peerHalfClosed => streams'[k].peerHalfClosed
            /\ streams[k].halfClosed => streams'[k].halfClosed
       /\ (nsetter' = nsetter + 1 /\ call'.set)
            => (streams' = streams /\ liveStreams' = liveStreams)]_vars

\* C10 witness: HalfClose has been called on a stream that was already
\* half-closed and whose peer side is closed too, while its id is registered.
C10_SetterCalledOnSetFlag ==
    /\ call.fn = "HalfClose"
    /\ call.set
    /\ streams[call.s].peerHalfClosed
    /\ getStream(streams[call.s].ID) # 0

\* C11: a stream whose peerHalfClosed and halfClosed are both true is not in
\* the live registry of the connection.
C11_ClosedStreamNotRegistered ==
    \A id \in DOMAIN liveStreams :
        liveStreams[id] # 0 =>
            ~(streams[liveStreams[id]].peerHalfClosed
              /\ streams[liveStreams[id]].halfClosed)

\* C11 witness: a stream that was registered is closed in both directions,
\* by a FIN of the peer and by its handler returning.
C11_StreamClosedBothWays ==
    \E k \in 1..Len(streams) :
        /\ streams[k].peerHalfClosed
        /\ streams[k].halfClosed
        /\ hs[k].pc = "done"
        /\ hs[k].ctrlFrameWritten
        /\ \A id \in DOMAIN liveStreams : liveStreams[id] # k

\* C12: readLoop enqueues a GOAWAY (last accepted stream id, status
\* PROTOCOL_ERROR under v3, priority 0xFF) when it leaves its loop on a protocol
\* violation, and only then: it enqueues none on EOF, a network error or a
\* received GOAWAY, and no other step enqueues one.
C12_GoAwayIffProtocolError ==
    [][/\ (rpc = "tail" /\ rpc' = "sentinelF") =>
            IF rerr \in {"EOF", "net", "GoAway"}
            THEN framesToWrite' = framesToWrite
            ELSE Enqueued(Frame("GOAWAY", lastGoodStreamID,
                                IF Version = 3
                                THEN STATUS_GOAWAY_PROTOCOL_ERROR ELSE 0,
                                FALSE, 0))
       /\ (\E x \in Items(framesToWrite') \ Items(framesToWrite) :
              x.Frame.type = "GOAWAY")
            => (rpc = "tail" /\ rerr = "protocol")]_vars

\* C12 witness: after a protocol violation that followed an accepted stream,
\* the v3 reader has enqueued GOAWAY with that stream's id.
C12_GoAwayEnqueued ==
    /\ Version = 3
    /\ rerr = "protocol"
    /\ rpc = "sentinelF"
    /\ lastGoodStreamID # 0
    /\ \E x \in Items(framesToWrite) :
         /\ x.Priority = maxFramePriority
         /\ x.Frame.type = "GOAWAY"
         /\ x.Frame.sid = lastGoodStreamID
         /\ x.Frame.code = STATUS_GOAWAY_PROTOCOL_ERROR

\* C13: once writeLoop has left its loop because a write or flush failed,
\* under fair scheduling readLoop and serveLoop terminate too and conn.Serve
\* has received its three exit announcements.  A connection on which a
\* goroutine panics is left aside.
C13_WriterFailureEndsServe ==
    (wpc = "exitErr") ~> \/ (rpc = "done" /\ spc = "done" /\ exits = 3)
                         \/ panicked

\* C14: no frame that carries a stream id is pushed onto the frame egress
\* queue at a moment when its stream is absent from the live registry or has
\* halfClosed set.
C14_NoFrameForClosedStream ==
    [][\A x \in Items(framesToWrite') \ Items(framesToWrite) :
         (x.Frame # NilFrame /\ FrameWithStreamID(x.Frame)) =>
            /\ getStream(x.Frame.sid) # 0
            /\ ~streams[getStream(x.Frame.sid)].halfClosed]_vars

\* C15: when readLoop receives a DATA frame whose stream is absent or
\* peer-half-closed, RST_STREAM for that id is put on the egress queue, with
\* status INVALID_STREAM under v2 and STREAM_ALREADY_CLOSED under v3.  A frame
\* on which the reader panics (stream id 0) is left aside.
C15_DataForClosedStreamIsReset ==
    [][(DataReadForClosedStream /\ ~panicked') =>
         Enqueued(Frame("RST_STREAM", rframe'.sid,
                        IF Version = 2
                        THEN STATUS_INVALID_STREAM ELSE STATUS_STREAM_ALREADY_CLOSED,
                        FALSE, 0))]_vars

\* C16: when readLoop receives a DATA frame whose stream is absent or
\* peer-half-closed, no byte of its payload is left in the decoder when the
\* next frame is decoded.  A frame on which the reader panics (stream id 0) is
\* left aside.
C16_PayloadOfClosedStreamDiscarded ==
    [][(DataReadForClosedStream /\ ~panicked') => rframe'.unread = 0]_vars

\* C17: a per-stream protocol violation on input (SYN_STREAM with a zero, even
\* or non-increasing id or for a live id, DATA for an absent or peer-half-closed
\* stream) terminates no loop: no goroutine panics, the reader stays in its
\* loop, the writer and the serve loop stay where they are, and neither a
\* GOAWAY nor a sentinel is enqueued.
C17_StreamErrorKeepsConnection ==
    [][(\/ /\ SynStreamRead
           /\ \/ rframe'.sid = 0
              \/ rframe'.sid % 2 = 0
              \/ rframe'.sid <= lastGoodStreamID
              \/ getStream(rframe'.sid) # 0
        \/ DataReadForClosedStream)
       => /\ ~panicked'
          /\ rpc' = "read"
          /\ wpc' = wpc
          /\ spc' = spc
          /\ \A x \in Items(framesToWrite') \ Items(framesToWrite) :
                x.Frame.type \notin {"GOAWAY", "nil"}
          /\ NilItem \notin Items(streamQ')]_vars

\* C18: a pushed stream is registered with peerHalfClosed true, and once
\* conn.push has returned the pushed stream is closed in both directions and
\* is no longer in the live registry of its connection.
C18_PushedStreamClosedOnReturn ==
    \A p \in 1..MaxPushes :
        /\ ppc[p] \in {"ServeHTTP", "done"} =>
              streams[plocal[p].obj].peerHalfClosed
        /\ ppc[p] = "done" =>
              /\ streams[plocal[p].obj].halfClosed
              /\ pconn[plocal[p].conn].liveStreams[plocal[p].id] # plocal[p].obj

\* C19: every id newServerStreamID returns is even, non-zero and greater than
\* every id it returned before, under any interleaving of the push calls.
C19_ServerStreamIDsIncrease ==
    \A i \in 1..Len(issued) :
        /\ issued[i].id % 2 = 0
        /\ issued[i].id # 0
        /\ \A j \in 1..(i - 1) : issued[j].id < issued[i].id

\* C19 witness: every push call has been through newServerStreamID, on both
\* connections, while another call was waiting for the mutex.
C19_ConcurrentPushesGotIDs ==
    /\ Len(issued) = MaxPushes
    /\ \A p \in 1..MaxPushes : plocal[p].id # 0
    /\ \E i \in 1..Len(issued) : issued[i].conn = 1
    /\ \E i \in 1..Len(issued) : issued[i].conn = 2

\* C20: on every connection the first pushed stream gets id 2 and each later
\* push on that connection the previous id of that connection plus 2.
C20_PushIDsPerConnection ==
    \A i \in 1..Len(issued) :
        issued[i].id =
            2 * Cardinality({j \in 1..i : issued[j].conn = issued[i].conn})

\* The frames of the sequence fs that are DATA frames.
DataFrames(fs) == SelectSeq(fs, LAMBDA f : f.type = "DATA")

\* The sum of the lengths of the frames fs.
RECURSIVE SumLen(_)
SumLen(fs) == IF fs = <<>> THEN 0 ELSE Head(fs).len + SumLen(Tail(fs))

\* C21: every DATA frame a response writer submitted has at most MAX_DATA_LEN
\* bytes, a DATA frame submitted from within Write has exactly MAX_DATA_LEN
\* bytes, and between calls the buffer holds fewer than MAX_DATA_LEN bytes.
C21_DataFrameLengths ==
    /\ rw.buf < MAX_DATA_LEN
    /\ \A i \in 1..Len(rw.frames) :
         rw.frames[i].type = "DATA" =>
            /\ rw.frames[i].len <= MAX_DATA_LEN
            /\ rw.frames[i].by = "Write" => rw.frames[i].len = MAX_DATA_LEN

\* C21 witness: a closed writer that flushed a full frame from Write, after a
\* Write that found bytes in the buffer, and a shorter last frame from Close.
C21_FullAndPartialFrames ==
    /\ rw.pc = "closed"
    /\ rw.nwrite >= 2
    /\ rw.total % MAX_DATA_LEN # 0
    /\ \E i \in 1..Len(rw.frames) :
         rw.frames[i].type = "DATA" /\ rw.frames[i].by = "Write"
    /\ \E i \in 1..Len(rw.frames) :
         /\ rw.frames[i].type = "DATA" /\ rw.frames[i].by = "Close"
         /\ rw.frames[i].len \in 1..(MAX_DATA_LEN - 1)

\* C22: a writer that sent its control frame and was closed after Write calls
\* that did not exceed the declared Content-Length submitted exactly one frame
\* with FIN, as its last frame, from Close or from the flush that reached the
\* Content-Length.
C22_ExactlyOneFinLast ==
    (/\ rw.pc = "closed" /\ rw.ctrlFrameWritten
     /\ (rw.contentLen = 0 \/ rw.total <= rw.contentLen)) =>
        /\ rw.frames # <<>>
        /\ rw.frames[Len(rw.frames)].fin
        /\ \A i \in 1..(Len(rw.frames) - 1) : ~rw.frames[i].fin
        /\ \/ rw.frames[Len(rw.frames)].by = "Close"
           \/ rw.contentLen # 0 /\ rw.writtenLen = rw.contentLen

\* C23: with a Content-Length L > 0 in effect, once the bytes passed to Write
\* reach L the last frame submitted is a DATA frame with FIN and the DATA
\* frames carry L bytes (for L = 5 and Writes of 5 and 3 bytes: one DATA frame
\* of 5 bytes with FIN).
C23_FinWhenContentLengthReached ==
    (rw.contentLen > 0 /\ rw.total >= rw.contentLen) =>
        /\ rw.frames # <<>>
        /\ rw.frames[Len(rw.frames)].type = "DATA"
        /\ rw.frames[Len(rw.frames)].fin
        /\ SumLen(DataFrames(rw.frames)) = rw.contentLen

C25_LeastPrecedencePoppedFirst ==
    /\ \A j \in 1..Len(pq.popped) : \A i \in 1..(j - 1) :
          ~TakePrecedenceOver(pq.popped[i], pq.popped[j])
    /\ pq.kind = "Item" =>
          \A j \in 1..Len(pq.popped) : \A i \in 1..(j - 1) :
              pq.popped[i].Priority >= pq.popped[j].Priority
    /\ (pq.kind = "Item" /\ Len(pq.pushed) = 3
          /\ Len(pq.q) + Len(pq.popped) = 3
          /\ [i \in 1..3 |-> pq.pushed[i].Priority] = <<3, 6, 1>>) =>
          \A i \in 1..Len(pq.popped) : pq.popped[i].Priority = <<6, 3, 1>>[i]

\* C25 witness: the Items 3, 6, 1 were pushed and all three popped.
C25_ThreeSixOnePopped ==
    /\ pq.kind = "Item"
    /\ [i \in 1..Len(pq.pushed) |-> pq.pushed[i].Priority] = <<3, 6, 1>>
    /\ [i \in 1..Len(pq.popped) |-> pq.popped[i].Priority] = <<6, 3, 1>>

\* C26: when fields of 1 to 32 bits whose widths add up to whole bytes were
\* written with WriteBits, reading the same widths in order with ReadBits
\* returns the values written, without error.
C26_BitsRoundTrip ==
    \A i \in 1..Len(codec.got) :
        /\ ~codec.got[i].err
        /\ codec.got[i].n = uint32(codec.fields[i].u)

\* The values the first k Add calls added for the lowercase name, in call order.
RECURSIVE AddedFor(_, _)
AddedFor(name, k) ==
    IF k = 0 THEN <<>>
    ELSE AddedFor(name, k - 1) \o
         (IF hb.calls[k].name # <<>> /\ ToLower(hb.calls[k].name) = name
          THEN hb.calls[k].values ELSE <<>>)

\* C27: after any Add calls the names of a header block are lowercase,
\* distinct and strictly ascending, the value stored for a name is the values
\* added for it in call order joined by NUL, and GetFirst returns the first
\* value added for the name, or the empty string when the name is absent.
C27_HeaderBlockSortedAndJoined ==
    /\ \A i \in 1..Len(hb.h) :
          /\ Names(hb.h)[i] = ToLower(Names(hb.h)[i])
          /\ \A j \in 1..(i - 1) :
                /\ Names(hb.h)[j] # Names(hb.h)[i]
                /\ StringGE(Names(hb.h)[i], Names(hb.h)[j])
          /\ hb.h[i].Value = Join(AddedFor(hb.h[i].Name, Len(hb.calls)), <<NUL>>)
    /\ \A name \in AddNames :
          GetFirst(hb.h, name) =
              IF AddedFor(ToLower(name), Len(hb.calls)) = <<>>
              THEN <<>>
              ELSE AddedFor(ToLower(name), Len(hb.calls))[1]

\* The Set calls for the id among the calls numbered in the set among.
SetCallsFor(ID, among) == {k \in among : se.calls[k].ID = ID}

\* What Get(ID) returns when the last of the calls numbered in ks took effect.
GetAfter(ks) ==
    IF ks = {}
    THEN [flags |-> 0, value |-> 0, exists |-> FALSE]
    ELSE LET k == CHOOSE k \in ks : \A k2 \in ks : k2 <= k
         IN  [flags |-> se.calls[k].flags, value |-> se.calls[k].value, exists |-> TRUE]

\* Ids appear once, in ascending order of the canonical id, stored as
\* toV2BuggySettingID of the canonical id, which fromV2BuggySettingID inverts.
SettingEntriesSorted ==
    /\ \A j \in 1..Len(se.s) : \A i \in 1..(j - 1) :
          fromV2BuggySettingID(se.s[i].ID) < fromV2BuggySettingID(se.s[j].ID)
    /\ \A i \in 1..Len(se.s) :
          /\ fromV2BuggySettingID(se.s[i].ID) \in 1..7
          /\ se.s[i].ID = toV2BuggySettingID(fromV2BuggySettingID(se.s[i].ID))
          /\ se.s[i].ID = 65536 * fromV2BuggySettingID(se.s[i].ID)
    /\ \A ID \in 1..7 : fromV2BuggySettingID(toV2BuggySettingID(ID)) = ID

\* C28 (amended): after any Set calls with ids in 1..7 each id appears at most
\* once, the entries ascend by canonical id, every stored id is
\* toV2BuggySettingID of its canonical id, and Get(id) returns the flags and
\* value of the most recent Set for the id that passed valid flags (no entry
\* if there was none).
C28_SettingEntriesSortedLatest ==
    /\ SettingEntriesSorted
    /\ \A ID \in 1..7 :
          Get(se.s, ID) =
              GetAfter({k \in SetCallsFor(ID, 1..Len(se.calls)) :
                           settingFlagsValid(se.calls[k].flags)})

\* C28 witness: an id was set, a smaller id was set after it, and a later Set
\* for the first id was refused for its flags.
C28_SetRefusedAfterSet ==
    /\ Len(se.s) >= 2
    /\ \E i, j, k \in 1..Len(se.calls) :
          /\ i < j /\ j < k
          /\ se.calls[i].ID > se.calls[j].ID
          /\ se.calls[k].ID = se.calls[i].ID
          /\ settingFlagsValid(se.calls[i].flags)
          /\ settingFlagsValid(se.calls[j].flags)
          /\ ~settingFlagsValid(se.calls[k].flags)
          /\ se.calls[k].value # se.calls[i].value

\* C28 as stated: Get(id) returns the flags and value of the most recent Set
\* call for the id, whatever its flags.
C28_AsStated ==
    /\ SettingEntriesSorted
    /\ \A ID \in 1..7 :
          Get(se.s, ID) = GetAfter(SetCallsFor(ID, 1..Len(se.calls)))

\* C29: the wrapped WriteHeader is called at most once; when the hook of an
\* outer WriteHeader(code) has called Write or WriteHeader and returned, the
\* outer code is not forwarded and a Write of the handler returns len(data)
\* without a call on the wrapped writer; when the hook has returned without
\* either call, the outer code has been forwarded exactly once.
C29_HookReplacesResponse ==
    [][LET forwarded == SelectSeq(hk'.under, LAMBDA c : c.from = "forward")
           headers == SelectSeq(hk'.under, LAMBDA c : c.op = "WriteHeader")
       IN  /\ Len(headers) <= 1
           /\ (hk'.hookRuns > 0 /\ hk'.pc = "out" /\ hk'.hookCalled) =>
                  forwarded = <<>>
           /\ (hk'.hookRuns > 0 /\ hk'.pc = "out" /\ ~hk'.hookCalled) =>
                  forwarded = <<UnderlyingCall("WriteHeader", hk'.code, "forward")>>
           /\ (/\ hk.pc = "out" /\ hk.hookCalled
               /\ hk'.ncalls = hk.ncalls + 1 /\ hk'.last.op = "Write") =>
                  /\ hk'.under = hk.under
                  /\ hk'.last.n = hk'.last.len]_vars

\* C29 witness: the hook wrote a response of its own and returned, and the
\* handler has then called Write with data.
C29_HandlerWroteAfterHook ==
    /\ hk.pc = "out" /\ hk.hookCalled
    /\ hk.last.op = "Write" /\ hk.last.from = "outer" /\ hk.last.len > 0
    /\ \E i \in 1..Len(hk.under) : hk.under[i].from = "hook" /\ hk.under[i].op = "Write"

\* The step ends conn.readDataFrame for a DATA frame with FLAG_FIN whose
\* stream object k was registered and not peer-half-closed when it began:
\* either the call did not block in io.Copy, or io.Copy has returned.
FinDataProcessed(k) ==
    \/ /\ nread' = nread + 1
       /\ rframe'.type = "DATA" /\ rframe'.fin
       /\ k = getStream(rframe'.sid)
       /\ k # 0
       /\ ~streams[k].peerHalfClosed
       /\ rcur' = NoCopy
    \/ /\ rcur # NoCopy /\ rcur.fin
       /\ rcur' = NoCopy
       /\ k = rcur.obj

\* C30: when the reader has processed a DATA frame with FIN for a stream that
\* was registered and not peer-half-closed, the stream is peer-half-closed,
\* the write end of its body pipe is closed, and the stream is out of the
\* registry if it was half-closed, whether or not the handler had closed the
\* read end of the pipe.
C30_FinDataHalfClosesPeer ==
    [][\A k \in 1..Len(streams) :
         (FinDataProcessed(k) /\ ~panicked') =>
            /\ streams'[k].peerHalfClosed
            /\ streams'[k].wclosed
            /\ streams[k].halfClosed => liveStreams'[streams[k].ID] = 0]_vars


\* The step is readLoop decoding an RST_STREAM frame.
RstStreamRead == nread' = nread + 1 /\ rframe'.type = "RST_STREAM"

\* C31: when readLoop processes RST_STREAM for a registered stream id, the id
\* leaves the registry and both ends of the stream's body pipe, if it has
\* one, are closed; for an id that is not registered the registry, the stream
\* queue, the frame egress queue and lastGoodStreamID stay as they are.  In
\* both cases the reader stays in its loop.
C31_RstStreamClosesStream ==
    [][RstStreamRead =>
         LET k == getStream(rframe'.sid)
         IN  /\ rpc' = "read" /\ ~panicked'
             /\ IF k # 0
                THEN /\ liveStreams' = [liveStreams EXCEPT ![rframe'.sid] = 0]
                     /\ streams[k].Reader =>
                            streams'[k].wclosed /\ streams'[k].rclosed
                ELSE UNCHANGED <<liveStreams, streams, streamQ, framesToWrite,
                                 frameWriteSeq, lastGoodStreamID>>]_vars

\* C31 witness: RST_STREAM was read for a stream that had a body pipe; the
\* stream is out of the registry with both pipe ends closed.
C31_StreamResetByPeer ==
    /\ rframe.type = "RST_STREAM"
    /\ \E k \in 1..Len(streams) :
         /\ streams[k].ID = rframe.sid
         /\ streams[k].Reader /\ streams[k].wclosed /\ streams[k].rclosed
         /\ liveStreams[rframe.sid] = 0


\* C32: a WINDOW_UPDATE frame read on a v3 connection changes no stream and
\* the registry, stops no goroutine and leaves readLoop in its loop; on a v2
\* connection it ends the loop with a protocol error.
C32_WindowUpdateAccepted ==
    [][(nread' = nread + 1 /\ rframe'.type = "WINDOW_UPDATE") =>
         IF Version >= 3
         THEN /\ ~panicked'
              /\ rpc' = "read"
              /\ UNCHANGED <<streams, liveStreams>>
         ELSE /\ rpc' = "tail"
              /\ isProtocolError(rerr')]_vars


\* The step is writeLoop popping the sentinel readLoop pushed on its way out.
SentinelPopped == wpc = "pop" /\ wpc' = "exit"

\* C33: every frame put on the frame egress queue before readLoop pushes the
\* sentinel has been popped by writeLoop when writeLoop pops the sentinel.
\* PING, WINDOW_UPDATE and GOAWAY frames are enqueued by readLoop alone, hence
\* before its sentinel: none of them is left in the queue at that step.
C33_FramesWrittenBeforeSentinel ==
    [][SentinelPopped =>
         \A x \in Items(framesToWrite') :
            x.Frame = NilFrame \/ x.Frame.type \notin {"PING", "WINDOW_UPDATE", "GOAWAY"}]_vars


\* C34: readLoop is not held up for ever by one stream whose handler neither
\* reads its body nor returns.  readLoop decodes its next frame only after
\* conn.readDataFrame has returned, so the copy of a DATA payload into the
\* body pipe must come to an end (or the process has panicked).
C34_ReaderNotBlockedByOneStream ==
    (rcur.st = "blocked") ~> (rcur = NoCopy \/ panicked)


\* The step is the end of conn.serveStream for stream object k: the deferred
\* function closes the body and calls stream.HalfClose.
HandlerCompletes(k) == hs[k].pc = "halfClose" /\ hs'[k].pc = "done"

\* C35: the completion of a stream object removes no registry entry that
\* names another stream object, also when that object reuses the id.
C35_RemovalOnlyForRegisteredObject ==
    [][\A k \in 1..Len(streams) :
         HandlerCompletes(k) =>
            \A id \in 0..MaxStreamID :
               (liveStreams[id] # 0 /\ liveStreams[id] # k) =>
                  liveStreams'[id] = liveStreams[id]]_vars


\* The payloads of the DATA frames submitted so far, one after the other.
RECURSIVE ConcatPayloads(_)
ConcatPayloads(ps) ==
    IF ps = <<>> THEN <<>>
    ELSE AppendBytes(ConcatPayloads(SubSeq(ps, 1, Len(ps) - 1)), ps[Len(ps)])

C37_SynReplyCarriesStatus ==
    rw.ctrlFrame = "SYN_REPLY" =>
       \A i \in 1..Len(rw.ctrlSubmitted) :
          {StatusHeader(Version), VersionHeader(Version)} \subseteq rw.ctrlSubmitted[i]


\* C38: no wake-up is lost.  A goroutine does not stay inside Pop (waiting for
\* the mutex or in notEmpty.Wait) while the queue holds an item, and does not
\* stay inside Push (waiting for the mutex or in notFull.Wait) while the queue
\* has a free slot: it leaves the call, or other calls take the item or slot.
C38_NoLostWakeUp ==
    \A g \in 1..MaxCallers :
       /\ (gpc[g] \in {"DecLock", "notEmpty.Wait"} /\ value > 0)
             ~> (gpc[g] \notin {"DecLock", "notEmpty.Wait"} \/ value = 0)
       /\ (gpc[g] \in {"IncLock", "notFull.Wait"} /\ value < maxValue)
             ~> (gpc[g] \notin {"IncLock", "notFull.Wait"} \/ value = maxValue)

\* C38 witness: a goroutine is in notEmpty.Wait while the queue holds an item
\* (the Signal of the Push went to another waiting goroutine), and the Push
\* has returned.
C38_WaiterWhileItemQueued ==
    \E g \in 1..MaxCallers, g2 \in 1..MaxCallers :
       /\ gpc[g] = "notEmpty.Wait"
       /\ gpc[g2] = "DecLock"
       /\ value > 0 /\ l = 0 /\ Len(q) = value


\* C39: the goroutines never deadlock on mtxClosed and mtxLiveStreams: while
\* a goroutine is inside a call, some goroutine inside a call can go on.  A
\* setter that asks for the registry lock holds its stream lock, and no
\* goroutine that holds the registry lock asks for a stream lock.
C39_NoLockDeadlock ==
    /\ (\E g \in Lockers : lk.pc[g] # "idle") => \E g \in Lockers : CanStep(lk, g)
    /\ \A g \in Lockers :
         /\ (lk.pc[g] = "deleteStream.Lock" /\ lk.fn[g] \in Setters) =>
               lk.w[lk.s[g]] = g
         /\ (lk.w[mtxLiveStreams] = g \/ g \in lk.r[mtxLiveStreams]) =>
               lk.pc[g] \notin {"Lock", "RLock"}

\* C39 witness: a setter holds its stream lock and waits for the registry
\* lock, which a reader holds, while a third goroutine waits for the read
\* lock of the same stream.
C39_SetterWaitsForRegistry ==
    \E g \in Lockers, g2 \in Lockers, g3 \in Lockers :
       /\ lk.pc[g] = "deleteStream.Lock" /\ lk.fn[g] \in Setters
       /\ lk.w[lk.s[g]] = g
       /\ g2 \in lk.r[mtxLiveStreams]
       /\ lk.pc[g3] = "RLock" /\ lk.s[g3] = lk.s[g]


\* C40: a stream id that DataFrame.SetStreamID accepts fits the 31-bit
\* stream-id field: when the header written for the frame is read back, the
\* control bit is 0 as written and the stream id read is the id set.
C40_StreamIDFitsWireField ==
    codec.frame.pc = "read" =>
       /\ codec.got[1].cbit = Zeros(32)
       /\ codec.got[1].isData
       /\ ~codec.got[1].err
       /\ codec.got[1].streamID = codec.frame.streamID

====
